---- MODULE Spec2Model ----
(***************************************************************************)
(* Local persistence layer of Spenders (utils/db): the IndexedDB object    *)
(* stores, the fourteen repository operations and the transaction each of  *)
(* them runs.  A repository call is a small process: it opens a            *)
(* connection, creates one transaction on one object store, places its     *)
(* requests, and settles its promise from the transaction's or request's   *)
(* event handlers.  The storage engine is the environment: it schedules    *)
(* transactions, executes requests one by one, and may fail an open, a     *)
(* request or a commit.  openDB upgrades the schema of an older database    *)
(* file before it resolves.  The date utilities (utils/date-utils) are     *)
(* pure functions of a reference date, modelled on local calendar dates.   *)
(***************************************************************************)
EXTENDS Integers, Sequences, FiniteSets, TLC

\* ---------------------------------------------------------------- bounds
MaxId == 2          \* expense / category / goal ids are 1..MaxId
MaxTime == 2        \* expense timestamps and query bounds are 1..MaxTime
MaxLen == 2         \* longest list handed to saveExpenses
MaxOps == 2         \* repository calls in flight at the same time
MaxClock == 2       \* Date.now() runs over 1..MaxClock
MaxYears == 2       \* reference dates lie in the years 2023..2022 + MaxYears
MaxExpenses == 2    \* longest list of expenses a component aggregates
MaxValue == 3       \* compared values are the multiples of 50 up to 50 * MaxValue
MaxTenths == 5      \* spending runs this far to each side of a status boundary
MaxDays == 3        \* longest window of the daily series, in days
MaxText == 3        \* longest text typed into an amount field

\* ------------------------------------------------------- store names
EXPENSES_STORE == "expenses"
SETTINGS_STORE == "settings"
CATEGORIES_STORE == "categories"
BUDGET_GOALS_STORE == "budgetGoals"

StoreNames == {EXPENSES_STORE, SETTINGS_STORE, CATEGORIES_STORE, BUDGET_GOALS_STORE}

\* ------------------------------------------------------------ records
ExpenseIds == 1..MaxId
Timestamps == 1..MaxTime
Expense == [id : ExpenseIds, timestamp : Timestamps]

\* lists of expenses of length 0..MaxLen (ids may repeat: the caller's list);
\* their timestamps are the earliest or the latest
ListedExpense == [id : ExpenseIds, timestamp : {1, MaxTime}]
ExpenseLists == UNION {[1..n -> ListedExpense] : n \in 0..MaxLen}

SettingNames == {"currency"}
SettingValues == {0, 1}
Setting == [name : SettingNames, value : SettingValues]

CategoryIds == 1..MaxId
CategoryNames == {"Rent", "Gym"}
Category == [id : CategoryIds, name : CategoryNames]

GoalIds == 1..MaxId
Periods == {"daily", "weekly", "monthly"}
\* createdAt = 0 stands for a goal object without createdAt
BudgetGoal == [id : GoalIds, category : CategoryIds, period : Periods,
               createdAt : 0..MaxClock, updatedAt : 0..MaxClock]

\* keyPath of every object store: "name" for settings, "id" for the others
KeyOf(store, r) == IF store = SETTINGS_STORE THEN r.name ELSE r.id

Keys(store, contents) == {KeyOf(store, r) : r \in contents}

\* a store's contents are well formed when the primary key is unique
UniqueKeys(store, contents) ==
    \A r1, r2 \in contents : KeyOf(store, r1) = KeyOf(store, r2) => r1 = r2

\* ------------------------------------------------- ordering of results
\* IDBObjectStore.getAll returns the records in ascending primary-key order
RECURSIVE ByKey(_, _)
ByKey(store, contents) ==
    IF contents = {} THEN <<>>
    ELSE LET m == CHOOSE r \in contents :
                     \A q \in contents : KeyOf(store, r) <= KeyOf(store, q)
         IN  <<m>> \o ByKey(store, contents \ {m})

\* IDBIndex.getAll returns the records in ascending (index key, primary key)
RECURSIVE ByTimestamp(_)
ByTimestamp(contents) ==
    IF contents = {} THEN <<>>
    ELSE LET m == CHOOSE r \in contents :
                     \A q \in contents :
                         \/ r.timestamp < q.timestamp
                         \/ r.timestamp = q.timestamp /\ r.id <= q.id
         IN  <<m>> \o ByTimestamp(contents \ {m})

Range(seq) == {seq[i] : i \in 1..Len(seq)}

\* ------------------------------------------------------------- schema
DB_VERSION == 3

\* the indexes openDB creates with each object store
IndexesOf(store) ==
    CASE store = EXPENSES_STORE -> {"timestamp", "category"}
      [] store = CATEGORIES_STORE -> {"name"}
      [] store = BUDGET_GOALS_STORE -> {"category", "period"}
      [] OTHER -> {}

\* an upgrade that deletes and recreates a store it finds without its indexes
onupgradeneededRecreating(db) ==
    [objectStoreNames |-> StoreNames,
     indexNames |-> [n \in StoreNames |-> IndexesOf(n)],
     stores |-> [n \in StoreNames |->
                    IF n \in db.objectStoreNames /\ db.indexNames[n] = IndexesOf(n)
                    THEN db.stores[n] ELSE {}]]

\* request.onupgradeneeded of openDB: creates each object store that is
\* missing, with its indexes, and adds the indexes an existing expenses store
\* lacks; existing settings, categories and budgetGoals stores are left as
\* they are, and no record is touched
onupgradeneeded(db) ==
    [objectStoreNames |->
         db.objectStoreNames \cup {EXPENSES_STORE, SETTINGS_STORE,
                                   CATEGORIES_STORE, BUDGET_GOALS_STORE},
     indexNames |->
         [n \in StoreNames |->
             IF n \notin db.objectStoreNames THEN IndexesOf(n)
             ELSE IF n = EXPENSES_STORE
                  THEN db.indexNames[n] \cup {"timestamp", "category"}
                  ELSE db.indexNames[n]],
     stores |-> db.stores]

\* indexedDB.open(DB_NAME, DB_VERSION) on a database file of the given
\* version: an older (or absent) file is upgraded before the open succeeds
Opened(oldVersion, db) == IF oldVersion < DB_VERSION THEN onupgradeneeded(db) ELSE db

\* no database file yet
NoSchema == [objectStoreNames |-> {}, indexNames |-> [n \in StoreNames |-> {}]]

\* the schema a first open creates
FullSchema ==
    [objectStoreNames |-> StoreNames, indexNames |-> [n \in StoreNames |-> IndexesOf(n)]]

\* ------------------------------------------------------ operation kinds
ReadKinds == {"getExpenses", "getExpensesByPeriod", "getSetting", "getCategories",
              "getBudgetGoals", "getBudgetGoalsByCategory", "getBudgetGoalsByPeriod"}

WriteKinds == {"saveExpenses", "addExpense", "deleteExpense", "saveSetting",
               "saveCategory", "saveBudgetGoal", "deleteBudgetGoal"}

ExpenseKinds == {"saveExpenses", "addExpense", "deleteExpense",
                 "getExpenses", "getExpensesByPeriod"}

\* deleteBudgetGoal working on the expenses store
StoreOfShared(kind) ==
    CASE kind \in ExpenseKinds \cup {"deleteBudgetGoal"} -> EXPENSES_STORE
      [] kind \in {"saveSetting", "getSetting"} -> SETTINGS_STORE
      [] kind \in {"saveCategory", "getCategories"} -> CATEGORIES_STORE
      [] OTHER -> BUDGET_GOALS_STORE

\* the object store named in each operation's db.transaction(...) call
StoreOf(kind) ==
    CASE kind \in ExpenseKinds -> EXPENSES_STORE
      [] kind \in {"saveSetting", "getSetting"} -> SETTINGS_STORE
      [] kind \in {"saveCategory", "getCategories"} -> CATEGORIES_STORE
      [] OTHER -> BUDGET_GOALS_STORE

\* the mode named in each operation's db.transaction(...) call
ModeOf(kind) == IF kind \in WriteKinds THEN "readwrite" ELSE "readonly"

\* the value a read returns from its catch block
SafeDefault(kind, arg) == IF kind = "getSetting" THEN arg.defaultValue ELSE <<>>

\* the index a read opens with store.index(...)
IndexOf(kind) ==
    CASE kind = "getExpensesByPeriod" -> {"timestamp"}
      [] kind = "getBudgetGoalsByCategory" -> {"category"}
      [] kind = "getBudgetGoalsByPeriod" -> {"period"}
      [] OTHER -> {}

\* store.index(name) throws a NotFoundError when the store has no such index
IndexThrows(kind, indexNames) == ~(IndexOf(kind) \subseteq indexNames[StoreOf(kind)])

\* ----------------------------------------- requests of each operation
\* a saveExpenses that adds without clearing first
SaveExpensesRequestsNoClear(expenses) ==
    [i \in 1..Len(expenses) |-> [type |-> "add", rec |-> expenses[i]]]

\* a saveExpenses that stamps every record it re-inserts with the latest time
SaveExpensesRequestsStamped(expenses) ==
    <<[type |-> "clear"]>> \o
    [i \in 1..Len(expenses) |->
        [type |-> "add", rec |-> [expenses[i] EXCEPT !.timestamp = MaxClock]]]

\* saveExpenses: store.clear(), then store.add(expense) for each expense
SaveExpensesRequests(expenses) ==
    <<[type |-> "clear"]>> \o
    [i \in 1..Len(expenses) |-> [type |-> "add", rec |-> expenses[i]]]

\* an addExpense that clears the store before it adds
AddExpenseRequestsClearing(expense) ==
    <<[type |-> "clear"], [type |-> "add", rec |-> expense]>>

\* an addExpense that puts (insert-or-replace) where the code adds
AddExpenseRequestsPut(expense) == <<[type |-> "put", rec |-> expense]>>

\* addExpense: store.add(expense)
AddExpenseRequests(expense) == <<[type |-> "add", rec |-> expense]>>

\* a delete that empties the store
DeleteRequestsClear(id) == <<[type |-> "clear"]>>

\* deleteExpense and deleteBudgetGoal: store.delete(id)
DeleteRequests(id) == <<[type |-> "delete", key |-> id]>>

\* getExpensesByPeriod: index("timestamp").getAll(IDBKeyRange.bound(start, end))
PeriodRequests(startTime, endTime) ==
    <<[type |-> "timestampRange", lower |-> startTime, upper |-> endTime]>>

\* saveSetting: store.put({ name, value })
SaveSettingRequests(name, value) ==
    <<[type |-> "put", rec |-> [name |-> name, value |-> value]]>>

\* saveCategory and saveBudgetGoal: store.put(record)
PutRequests(record) == <<[type |-> "put", rec |-> record]>>

\* an indexed lookup that scans the whole store
IndexRequestsScan(index, value) == <<[type |-> "getAll"]>>

\* getBudgetGoalsByCategory and getBudgetGoalsByPeriod: index(name).getAll(value)
IndexRequests(index, value) ==
    <<[type |-> "indexOnly", index |-> index, value |-> value]>>

\* the requests an operation places on its transaction, in program order
RequestsOf(kind, arg) ==
    CASE kind = "saveExpenses" -> SaveExpensesRequests(arg)
      [] kind = "addExpense" -> AddExpenseRequests(arg)
      [] kind \in {"deleteExpense", "deleteBudgetGoal"} -> DeleteRequests(arg)
      [] kind = "getExpensesByPeriod" -> PeriodRequests(arg.startTime, arg.endTime)
      [] kind = "saveSetting" -> SaveSettingRequests(arg.name, arg.value)
      [] kind = "getSetting" -> <<[type |-> "get", key |-> arg.name]>>
      [] kind \in {"saveCategory", "saveBudgetGoal"} -> PutRequests(arg)
      [] kind = "getBudgetGoalsByCategory" -> IndexRequests("category", arg)
      [] kind = "getBudgetGoalsByPeriod" -> IndexRequests("period", arg)
      [] OTHER -> <<[type |-> "getAll"]>>

\* ---------------------------------------------------------------- state
VARIABLES
    stores,     \* object store name -> set of records (the database file)
    ops,        \* call slot -> the repository call running in it
    txQueue,    \* slots whose transaction is live, in order of creation
    now,        \* the value Date.now() returns
    prior,      \* history: the called store's contents when the last call was made
    version,    \* version of the database file, 0 when there is none
    schema,     \* object stores of the database file and the indexes of each
    date,       \* the reference date handed to the date utilities
    window,     \* the bounds the date utilities returned for it
    ledger,     \* the expenses a component aggregates, as getExpenses() gave them
    view,       \* what the component last computed from them
    categories, \* the category list a component holds in its state
    dbInitialized, \* FinanceApp: the database was read and the start logged
    loading,    \* FinanceApp: the loading screen is shown
    created,    \* history: every expense as the input form built it
    journal     \* history: the order of the calls in flight, the expenses whose
                \* add resolved, those the user asked to remove, those the
                \* last reset wipes, and those whose removal resolved

vars == <<stores, ops, txQueue, now, prior, version, schema, date, window,
          ledger, view, categories, dbInitialized, loading, created, journal>>

\* no reference date, no bounds computed
NoDate == <<>>
NoWindow == [period |-> "none", start |-> <<0, 0>>, end |-> <<0, 0>>]

\* the state of the database and of the calls on it
database == <<stores, ops, txQueue, now, prior, version, schema>>

\* the state the repository operations never touch
calendar == <<date, window>>

\* nothing computed yet
NoView == [of |-> "none"]

\* the state of the components that aggregate
screens == <<ledger, view, categories>>
\* the journal before anything was called
NoJournal ==
    [calls |-> <<>>, added |-> {}, excused |-> {}, wiped |-> {}, removed |-> {}]

application == <<dbInitialized, loading, created, journal>>

\* ------------------------------------------- the engine's request steps
\* a key range whose upper end is open
InBoundUpperOpen(lower, upper, k) == lower <= k /\ k < upper

\* IDBKeyRange.bound(lower, upper): both ends closed
InBound(lower, upper, k) == lower <= k /\ k <= upper

\* a "name" index created without { unique: true }
ViolatesUniqueNameNever(store, contents, rec) == FALSE

\* the unique "name" index of the categories store, where the store has it
ViolatesUniqueName(store, contents, rec) ==
    /\ store = CATEGORIES_STORE
    /\ "name" \in schema.indexNames[CATEGORIES_STORE]
    /\ \E r \in contents : r.name = rec.name /\ r.id # rec.id

\* a request that the engine answers with an error event (ConstraintError)
RequestFails(store, contents, req) ==
    CASE req.type = "add" ->
             \/ KeyOf(store, req.rec) \in Keys(store, contents)
             \/ ViolatesUniqueName(store, contents, req.rec)
      [] req.type = "put" -> ViolatesUniqueName(store, contents, req.rec)
      [] OTHER -> FALSE

\* the store's contents after a successful request
RequestEffect(store, contents, req) ==
    CASE req.type = "clear" -> {}
      [] req.type = "add" -> contents \cup {req.rec}
      [] req.type = "put" ->
             {r \in contents : KeyOf(store, r) # KeyOf(store, req.rec)} \cup {req.rec}
      [] req.type = "delete" -> {r \in contents : KeyOf(store, r) # req.key}
      [] OTHER -> contents

\* request.result of a successful read request
RequestResult(store, contents, req) ==
    CASE req.type = "getAll" -> ByKey(store, contents)
      [] req.type = "timestampRange" ->
             ByTimestamp({r \in contents : InBound(req.lower, req.upper, r.timestamp)})
      [] req.type = "indexOnly" ->
             ByKey(store, {r \in contents : r[req.index] = req.value})
      [] req.type = "get" -> {r \in contents : KeyOf(store, r) = req.key}
      [] OTHER -> <<>>

\* a getSetting that tests the stored value, not the stored record
ResolvedValueTruthy(kind, arg, res) ==
    IF kind = "getSetting"
    THEN IF res # {} /\ (CHOOSE r \in res : TRUE).value # 0
         THEN (CHOOSE r \in res : TRUE).value ELSE arg.defaultValue
    ELSE res

\* what the operation's onsuccess handler passes to resolve()
ResolvedValue(kind, arg, res) ==
    IF kind = "getSetting"
    THEN IF res # {} THEN (CHOOSE r \in res : TRUE).value ELSE arg.defaultValue
    ELSE res

Slots == 1..MaxOps

\* given is history: the argument as the caller passed it (saveBudgetGoal
\* writes into its argument)
IdleOp == [kind |-> "none", arg |-> <<>>, pc |-> "idle", done |-> 0, undo |-> {},
           conn |-> "none", outcome |-> "none", result |-> <<>>, settles |-> 0,
           given |-> <<>>]

\* resolve(value) of the promise the operation returned: a promise settles
\* at most once, later calls of resolve or reject are ignored
Resolve(op, value) ==
    IF op.outcome = "pending"
    THEN [op EXCEPT !.outcome = "resolved", !.result = value, !.settles = @ + 1]
    ELSE op

\* reject(reason) of the promise the operation returned
Reject(op, reason) ==
    IF op.outcome = "pending"
    THEN [op EXCEPT !.outcome = "rejected", !.result = reason, !.settles = @ + 1]
    ELSE op

\* the slots queued before position i of the transaction queue
Earlier(s) ==
    LET i == CHOOSE j \in 1..Len(txQueue) : txQueue[j] = s
    IN  {txQueue[j] : j \in 1..(i - 1)}

\* transactions that do not wait for one another
CanStartAtOnce(s) == TRUE

\* the engine starts a transaction once no earlier live transaction with an
\* overlapping scope conflicts with it: readers share, a writer is alone
CanStart(s) ==
    \A t \in Earlier(s) :
        \/ StoreOf(ops[t].kind) # StoreOf(ops[s].kind)
        \/ ModeOf(ops[t].kind) = "readonly" /\ ModeOf(ops[s].kind) = "readonly"

Dequeue(s) == SelectSeq(txQueue, LAMBDA t : t # s)

\* a saveBudgetGoal that sets createdAt on every save
StampedAlways(goal) == [goal EXCEPT !.createdAt = now, !.updatedAt = now]

\* saveBudgetGoal stamps the caller's goal before it puts it
Stamped(goal) ==
    [goal EXCEPT !.createdAt = IF goal.createdAt = 0 THEN now ELSE @,
                 !.updatedAt = now]

TypeOK ==
    /\ DOMAIN stores = StoreNames
    /\ DOMAIN ops = Slots
    /\ \A s \in Slots :
          /\ ops[s].pc \in {"idle", "opening", "queued", "active", "committing",
                            "settled", "hung"}
          /\ ops[s].conn \in {"none", "open", "closed"}
          /\ ops[s].outcome \in {"none", "pending", "resolved", "rejected"}
    /\ now \in Nat

\* ------------------------------------------------------------- actions
\* a call site calls the operation: it calls openDB() and awaits it
Call(s, kind, arg) ==
    /\ ops[s].pc = "idle"
    /\ ops' = [ops EXCEPT ![s] = [IdleOp EXCEPT !.kind = kind, !.arg = arg,
                                                !.given = arg,
                                                !.pc = "opening",
                                                !.outcome = "pending"]]
    /\ prior' = stores[StoreOf(kind)]
    /\ UNCHANGED <<stores, txQueue, now, version, schema, calendar, screens, application>>

\* openDB rejects: the await throws into the catch block, which returns the
\* safe default in a read and rethrows in a write
OpenError(s) ==
    /\ ops[s].pc = "opening"
    /\ ops' = [ops EXCEPT ![s] =
                 [(IF @.kind \in ReadKinds
                   THEN Resolve(@, SafeDefault(@.kind, @.arg))
                   ELSE Reject(@, "OpenError")) EXCEPT !.pc = "settled"]]
    /\ UNCHANGED <<stores, txQueue, now, prior, version, schema, calendar, screens, application>>

\* IDBKeyRange.bound throws a DataError when lower > upper
BoundThrows(kind, arg) ==
    kind = "getExpensesByPeriod" /\ arg.startTime > arg.endTime

\* openDB resolves, after the upgrade when the file is older than DB_VERSION:
\* the operation creates its transaction, places its requests and returns a
\* promise wired to the transaction's handlers; a throw on the way is caught
\* and answered with the safe default
OpenSuccess(s) ==
    /\ ops[s].pc = "opening"
    /\ LET db == Opened(version, [objectStoreNames |-> schema.objectStoreNames,
                                  indexNames |-> schema.indexNames,
                                  stores |-> stores])
       IN  /\ stores' = db.stores
           /\ schema' = [objectStoreNames |-> db.objectStoreNames,
                         indexNames |-> db.indexNames]
           /\ version' = DB_VERSION
           /\ IF \/ BoundThrows(ops[s].kind, ops[s].arg)
                 \/ IndexThrows(ops[s].kind, db.indexNames)
              THEN /\ ops' = [ops EXCEPT ![s] =
                                [Resolve(@, <<>>) EXCEPT !.pc = "settled",
                                                         !.conn = "open"]]
                   /\ UNCHANGED txQueue
              ELSE /\ ops' = [ops EXCEPT ![s] =
                                [@ EXCEPT !.pc = "queued", !.conn = "open",
                                          !.arg = IF ops[s].kind = "saveBudgetGoal"
                                                  THEN Stamped(@) ELSE @]]
                   /\ txQueue' = Append(txQueue, s)
    /\ UNCHANGED <<now, prior, calendar, screens, application>>

\* the engine starts the transaction (one without requests has only to commit)
TxStart(s) ==
    /\ ops[s].pc = "queued"
    /\ CanStart(s)
    /\ ops' = [ops EXCEPT ![s] =
                 [@ EXCEPT !.pc = IF RequestsOf(ops[s].kind, ops[s].arg) = <<>>
                                  THEN "committing" ELSE "active",
                           !.undo = IF ModeOf(ops[s].kind) = "readwrite"
                                    THEN stores[StoreOf(ops[s].kind)] ELSE {}]]
    /\ UNCHANGED <<stores, txQueue, now, prior, version, schema, calendar, screens, application>>

\* the request the engine executes next in the operation's transaction
NextRequest(op) == RequestsOf(op.kind, op.arg)[op.done + 1]

\* the engine answers the read request with a success event: request.onsuccess
\* closes the connection and resolves with the result; the transaction, which
\* has no further request, completes
ReadSuccess(s) ==
    /\ ops[s].pc = "active"
    /\ ops[s].kind \in ReadKinds
    /\ LET op == ops[s]
           res == RequestResult(StoreOf(op.kind), stores[StoreOf(op.kind)],
                                NextRequest(op))
       IN  ops' = [ops EXCEPT ![s] =
                     [Resolve([op EXCEPT !.conn = "closed"],
                              ResolvedValue(op.kind, op.arg, res))
                      EXCEPT !.pc = "settled"]]
    /\ txQueue' = Dequeue(s)
    /\ UNCHANGED <<stores, now, prior, version, schema, calendar, screens, application>>

\* the engine answers the read request with an error event: request.onerror
\* rejects the promise the operation returned without awaiting it, so the
\* catch block is not entered; nothing closes the connection
ReadError(s) ==
    /\ ops[s].pc = "active"
    /\ ops[s].kind \in ReadKinds
    /\ ops' = [ops EXCEPT ![s] = [Reject(@, "RequestError") EXCEPT !.pc = "settled"]]
    /\ txQueue' = Dequeue(s)
    /\ UNCHANGED <<stores, now, prior, version, schema, calendar, screens, application>>

\* a request of a write transaction succeeds: no handler is attached to the
\* request, the store changes inside the transaction
WriteSuccess(s) ==
    /\ ops[s].pc = "active"
    /\ ops[s].kind \in WriteKinds
    /\ LET op == ops[s]
           st == StoreOf(op.kind)
           n  == Len(RequestsOf(op.kind, op.arg))
       IN  /\ ~RequestFails(st, stores[st], NextRequest(op))
           /\ stores' = [stores EXCEPT ![st] = RequestEffect(st, @, NextRequest(op))]
           /\ ops' = [ops EXCEPT ![s] =
                        [@ EXCEPT !.done = @ + 1,
                                  !.pc = IF op.done + 1 = n THEN "committing"
                                         ELSE "active"]]
    /\ UNCHANGED <<txQueue, now, prior, version, schema, calendar, screens, application>>

\* a saveExpenses whose clear() ran in a transaction of its own: the abort of
\* the adds leaves the store cleared
AfterAbortClearCommitted(op) == IF op.kind = "saveExpenses" THEN {} ELSE op.undo

\* the store's contents once the operation's transaction has aborted: the
\* operation made every request in one transaction, so all of them are undone
AfterAbort(op) == op.undo

\* what transaction.onerror does, once per error event that reaches it:
\* the failed request's event first (transaction.error is still null), then
\* one AbortError event per request that was still pending at the abort
OnTransactionError(op, pending) ==
    IF pending = 0 THEN Reject(op, "null")
    ELSE Reject(Reject(op, "null"), "AbortError")

\* a request of a write transaction fails (a constraint of the store, or the
\* engine itself): the error event bubbles to transaction.onerror, which
\* rejects; the default action aborts the transaction, undoing its changes.
\* Nothing closes the connection.
WriteError(s, engineFault) ==
    /\ ops[s].pc = "active"
    /\ ops[s].kind \in WriteKinds
    /\ LET op == ops[s]
           st == StoreOf(op.kind)
           n  == Len(RequestsOf(op.kind, op.arg))
       IN  /\ engineFault \/ RequestFails(st, stores[st], NextRequest(op))
           /\ stores' = [stores EXCEPT ![st] = AfterAbort(op)]
           /\ ops' = [ops EXCEPT ![s] =
                        [OnTransactionError(op, n - (op.done + 1))
                         EXCEPT !.pc = "settled", !.undo = {}, !.done = 0]]
    /\ txQueue' = Dequeue(s)
    /\ UNCHANGED <<now, prior, version, schema, calendar, screens, application>>

\* the transaction commits: transaction.oncomplete closes the connection and
\* resolves
TxComplete(s) ==
    /\ ops[s].pc = "committing"
    /\ ops' = [ops EXCEPT ![s] =
                 [Resolve([@ EXCEPT !.conn = "closed"], <<>>)
                  EXCEPT !.pc = "settled", !.undo = {}, !.done = 0]]
    /\ txQueue' = Dequeue(s)
    /\ UNCHANGED <<stores, now, prior, version, schema, calendar, screens, application>>

\* the commit fails (quota, disk): the engine undoes the transaction and
\* fires only an abort event at it; no request is pending, so no error event
\* is fired, and the operation attached no onabort handler
TxAbort(s) ==
    /\ ops[s].pc = "committing"
    /\ stores' = [stores EXCEPT ![StoreOf(ops[s].kind)] = AfterAbort(ops[s])]
    /\ ops' = [ops EXCEPT ![s] = [@ EXCEPT !.pc = "hung", !.undo = {}, !.done = 0]]
    /\ txQueue' = Dequeue(s)
    /\ UNCHANGED <<now, prior, version, schema, calendar, screens, application>>

\* the caller has taken the settled promise's outcome; the slot is free again
Retire(s) ==
    /\ ops[s].pc = "settled"
    /\ ops' = [ops EXCEPT ![s] = IdleOp]
    /\ UNCHANGED <<stores, txQueue, now, prior, version, schema, calendar, screens, application>>

\* ---------------------------------------------------- inputs of the calls
QueryTimes == 1..MaxTime

ExpenseArgs(kind) ==
    CASE kind = "saveExpenses" -> ExpenseLists
      [] kind = "addExpense" -> Expense
      [] kind = "deleteExpense" -> ExpenseIds
      [] kind = "getExpenses" -> {<<>>}
      [] OTHER -> [startTime : QueryTimes, endTime : QueryTimes]

\* ------------------------------------------ the expense repository alone
Init ==
    /\ stores = [n \in StoreNames |-> {}]
    /\ ops = [s \in Slots |-> IdleOp]
    /\ txQueue = <<>>
    /\ now = 1
    /\ prior = {}
    /\ version = 0
    /\ schema = NoSchema
    /\ date = NoDate
    /\ window = NoWindow
    /\ ledger = <<>>
    /\ view = NoView
    /\ dbInitialized = FALSE /\ loading = TRUE /\ created = {} /\ journal = NoJournal
    /\ categories = <<>>

Steps(s) ==
    \/ OpenError(s)
    \/ OpenSuccess(s)
    \/ TxStart(s)
    \/ ReadSuccess(s)
    \/ ReadError(s)
    \/ WriteSuccess(s)
    \/ \E engineFault \in BOOLEAN : WriteError(s, engineFault)
    \/ TxComplete(s)
    \/ TxAbort(s)

\* the engine's steps for a caller that only writes
WriteSteps(s) ==
    \/ OpenError(s)
    \/ OpenSuccess(s)
    \/ TxStart(s)
    \/ WriteSuccess(s)
    \/ \E engineFault \in BOOLEAN : WriteError(s, engineFault)
    \/ TxComplete(s)
    \/ TxAbort(s)

\* one call at a time: the next call is made when the previous has settled
Next ==
    \/ \E kind \in ExpenseKinds : \E arg \in ExpenseArgs(kind) :
           Call(1, kind, arg)
    \/ Steps(1)
    \/ Retire(1)

Spec == Init /\ [][Next]_vars

\* ------------------------- several call sites using the expense repository
\* the application flushes its in-memory list (distinct ids) or, on reset, the
\* empty list; the form adds an expense with a new id and timestamp; the
\* transaction list deletes the oldest expense
FlushLists ==
    {[i \in 1..n |-> [id |-> i, timestamp |-> 1]] :
         n \in {0, IF MaxLen <= MaxId THEN MaxLen ELSE MaxId}}

ConcArgs(kind) ==
    CASE kind = "saveExpenses" -> {l \in FlushLists : Len(l) <= MaxId}
      [] kind = "addExpense" -> {[id |-> MaxId, timestamp |-> MaxTime]}
      [] kind = "deleteExpense" -> {1}
      [] OTHER -> {<<>>}

ConcKinds == {"saveExpenses", "addExpense", "deleteExpense", "getExpenses"}

\* what an earlier session may have left in the expenses store
InitConc ==
    /\ \E l \in ConcArgs("saveExpenses") :
           stores = [n \in StoreNames |-> IF n = EXPENSES_STORE THEN Range(l) ELSE {}]
    /\ ops = [s \in Slots |-> IdleOp]
    /\ txQueue = <<>>
    /\ now = 1
    /\ prior = {}
    /\ version = DB_VERSION
    /\ schema = FullSchema
    /\ date = NoDate
    /\ window = NoWindow
    /\ ledger = <<>>
    /\ view = NoView
    /\ dbInitialized = FALSE /\ loading = TRUE /\ created = {} /\ journal = NoJournal
    /\ categories = <<>>

\* up to MaxOps calls made without waiting for one another, in slot order
InOrder(s) == \A t \in Slots : t < s => ops[t].pc # "idle"

NextConc ==
    \/ \E s \in Slots : \E kind \in ConcKinds : \E arg \in ConcArgs(kind) :
           InOrder(s) /\ Call(s, kind, arg)
    \/ \E s \in Slots : Steps(s)

SpecConc == InitConc /\ [][NextConc]_vars

\* ------------------------------------- every operation of the repository
\* Date.now() advances
Tick ==
    /\ now < MaxClock
    /\ now' = now + 1
    /\ UNCHANGED <<stores, ops, txQueue, prior, version, schema, calendar, screens, application>>

AllKinds == ReadKinds \cup WriteKinds

\* one or two inputs for each operation, among them a list with a repeated id
\* and two categories with the same name
AllArgs(kind) ==
    CASE kind = "saveExpenses" ->
             {<<>>, <<[id |-> 1, timestamp |-> 1]>>,
              <<[id |-> 1, timestamp |-> 1], [id |-> 1, timestamp |-> 1]>>}
      [] kind = "addExpense" -> {[id |-> 1, timestamp |-> 1]}
      [] kind \in {"deleteExpense", "deleteBudgetGoal"} -> {1}
      [] kind = "getExpensesByPeriod" -> {[startTime |-> 1, endTime |-> 1]}
      [] kind = "saveSetting" -> Setting
      [] kind = "getSetting" -> [name : SettingNames, defaultValue : {-1}]
      [] kind = "saveCategory" -> [id : CategoryIds, name : {"Rent"}]
      [] kind = "saveBudgetGoal" ->
             {[id |-> 1, category |-> 1, period |-> "monthly",
               createdAt |-> 0, updatedAt |-> 0]}
      [] kind = "getBudgetGoalsByCategory" -> {1}
      [] kind = "getBudgetGoalsByPeriod" -> {"monthly"}
      [] OTHER -> {<<>>}

NextAll ==
    \/ \E kind \in AllKinds : \E arg \in AllArgs(kind) : Call(1, kind, arg)
    \/ Steps(1)
    \/ Retire(1)
    \/ Tick

SpecAll == Init /\ [][NextAll]_vars

\* ------------------------------------ adding to and deleting from a store
DelKinds == {"addExpense", "deleteExpense", "getExpenses",
             "saveBudgetGoal", "deleteBudgetGoal", "getBudgetGoals"}

\* a new expense from the form, a new goal from the goal dialog, any id to
\* delete, and the reads that reload the lists
DelArgs(kind) ==
    CASE kind = "addExpense" -> [id : ExpenseIds, timestamp : {1}]
      [] kind = "saveBudgetGoal" ->
             [id : GoalIds, category : {1}, period : {"monthly"},
              createdAt : {0}, updatedAt : {0}]
      [] kind = "deleteExpense" -> ExpenseIds
      [] kind = "deleteBudgetGoal" -> GoalIds
      [] OTHER -> {<<>>}

NextDel ==
    \/ \E kind \in DelKinds : \E arg \in DelArgs(kind) : Call(1, kind, arg)
    \/ Steps(1)
    \/ Retire(1)

SpecDel == Init /\ [][NextDel]_vars

\* ------------------------------------------------- the settings alone
\* two of the settings the application keeps; the values 0 and 1 stand for a
\* falsy value (0, false, "") and a truthy one, -1 for the caller's default
SettingKeys == {"currency", "soundEnabled"}

SettingArgs(kind) ==
    IF kind = "saveSetting" THEN [name : SettingKeys, value : SettingValues]
    ELSE [name : SettingKeys, defaultValue : {-1}]

NextSettings ==
    \/ \E kind \in {"saveSetting", "getSetting"} : \E arg \in SettingArgs(kind) :
           Call(1, kind, arg)
    \/ Steps(1)
    \/ Retire(1)

SpecSettings == Init /\ [][NextSettings]_vars

\* ------------------------------------------- saving budget goals over time
\* the goal dialog saves a new goal or an edited one, which carries the
\* createdAt it was loaded with; other callers may pass a goal without one
StampArgs ==
    [id : GoalIds, category : {1}, period : {"monthly"},
     createdAt : 0..MaxClock, updatedAt : {0}]

NextStamps ==
    \/ \E arg \in StampArgs : Call(1, "saveBudgetGoal", arg)
    \/ Call(1, "getBudgetGoals", <<>>)
    \/ Steps(1)
    \/ Retire(1)
    \/ Tick

SpecStamps == Init /\ [][NextStamps]_vars

\* --------------------------------------- budget goals and their indexes
GoalKinds == {"saveBudgetGoal", "deleteBudgetGoal", "getBudgetGoals",
              "getBudgetGoalsByCategory", "getBudgetGoalsByPeriod"}

\* goals as the goal dialog saves them, for any category and period
GoalArgs(kind) ==
    CASE kind = "saveBudgetGoal" ->
             [id : GoalIds, category : CategoryIds, period : Periods,
              createdAt : {0}, updatedAt : {0}]
      [] kind = "deleteBudgetGoal" -> GoalIds
      [] kind = "getBudgetGoalsByCategory" -> CategoryIds
      [] kind = "getBudgetGoalsByPeriod" -> Periods
      [] OTHER -> {<<>>}

NextGoals ==
    \/ \E kind \in GoalKinds : \E arg \in GoalArgs(kind) : Call(1, kind, arg)
    \/ Steps(1)
    \/ Retire(1)

SpecGoals == Init /\ [][NextGoals]_vars

\* ------------------------------- opening a database an older version left
\* the schemas an older version may have left: any of the four object
\* stores, each with any of its indexes
PriorSchemas ==
    {sc \in [objectStoreNames : SUBSET StoreNames,
             indexNames : [StoreNames -> SUBSET {"timestamp", "category",
                                                 "name", "period"}]] :
         \A n \in StoreNames :
             sc.indexNames[n] \subseteq
                 (IF n \in sc.objectStoreNames THEN IndexesOf(n) ELSE {})}

\* a record an older version may have left in a store
Seed(store) ==
    CASE store = EXPENSES_STORE -> [id |-> 1, timestamp |-> 1]
      [] store = SETTINGS_STORE -> [name |-> "currency", value |-> 1]
      [] store = CATEGORIES_STORE -> [id |-> 1, name |-> "Rent"]
      [] OTHER -> [id |-> 1, category |-> 1, period |-> "monthly",
                   createdAt |-> 1, updatedAt |-> 1]

InitSchema ==
    /\ schema \in PriorSchemas
    /\ version \in {v \in 0..(DB_VERSION - 1) : v = 0 <=> schema.objectStoreNames = {}}
    /\ \E seeded \in BOOLEAN :
           stores = [n \in StoreNames |->
                        IF seeded /\ n \in schema.objectStoreNames
                        THEN {Seed(n)} ELSE {}]
    /\ ops = [s \in Slots |-> IdleOp]
    /\ txQueue = <<>>
    /\ now = 1
    /\ prior = {}
    /\ date = NoDate
    /\ window = NoWindow
    /\ ledger = <<>>
    /\ view = NoView
    /\ dbInitialized = FALSE /\ loading = TRUE /\ created = {} /\ journal = NoJournal
    /\ categories = <<>>

SchemaKinds == {"saveCategory", "getCategories", "getBudgetGoalsByCategory"}

SchemaArgs(kind) ==
    CASE kind = "saveCategory" -> [id : CategoryIds, name : {"Rent"}]
      [] kind = "getBudgetGoalsByCategory" -> {1}
      [] OTHER -> {<<>>}

NextSchema ==
    \/ \E kind \in SchemaKinds : \E arg \in SchemaArgs(kind) : Call(1, kind, arg)
    \/ Steps(1)
    \/ Retire(1)

SpecSchema == InitSchema /\ [][NextSchema]_vars

\* ------------------------------------------------ the categories alone
CategoryArgs(kind) == IF kind = "saveCategory" THEN Category ELSE {<<>>}

NextCategories ==
    \/ \E kind \in {"saveCategory", "getCategories"} : \E arg \in CategoryArgs(kind) :
           Call(1, kind, arg)
    \/ Steps(1)
    \/ Retire(1)

SpecCategories == Init /\ [][NextCategories]_vars

\* ------------------------------------------------ the date utilities
\* a Date in local time: year, month 0..11, day of the month, time of day as
\* <<hours, minutes, seconds, milliseconds>>
InLeapYear(y) == (y % 4 = 0 /\ y % 100 # 0) \/ y % 400 = 0

DaysInMonth(y, m) ==
    IF m = 1 THEN (IF InLeapYear(y) THEN 29 ELSE 28)
    ELSE IF m \in {3, 5, 8, 10} THEN 30 ELSE 31

\* the Date made of a year, a month and a day of the month that may lie
\* outside the year and the month: the excess carries over
RECURSIVE MakeDay(_, _, _)
MakeDay(y, m, d) ==
    IF m < 0 THEN MakeDay(y - 1, m + 12, d)
    ELSE IF m > 11 THEN MakeDay(y + 1, m - 12, d)
    ELSE IF d < 1
         THEN IF m = 0 THEN MakeDay(y - 1, 11, d + DaysInMonth(y - 1, 11))
              ELSE MakeDay(y, m - 1, d + DaysInMonth(y, m - 1))
    ELSE IF d > DaysInMonth(y, m) THEN MakeDay(y, m + 1, d - DaysInMonth(y, m))
    ELSE [year |-> y, month |-> m, day |-> d]

\* days from 1 January 1970 to the first day of year y
DayFromYear(y) ==
    365 * (y - 1970) + ((y - 1969) \div 4) - ((y - 1901) \div 100)
                     + ((y - 1601) \div 400)

RECURSIVE DaysBefore(_, _)
DaysBefore(y, m) == IF m = 0 THEN 0 ELSE DaysBefore(y, m - 1) + DaysInMonth(y, m - 1)

\* days from 1 January 1970 to the date
DayNumber(dt) == DayFromYear(dt.year) + DaysBefore(dt.year, dt.month) + dt.day - 1

\* date.getTime(): <<days since the epoch, milliseconds into the day>>
getTime(dt) ==
    <<DayNumber(dt),
      ((dt.time[1] * 60 + dt.time[2]) * 60 + dt.time[3]) * 1000 + dt.time[4]>>

\* date.getDay(): 0 = Sunday ... 6 = Saturday; 1 January 1970 was a Thursday
getDay(dt) == (DayNumber(dt) + 4) % 7

\* a setDate that keeps the day inside the month
setDateClamped(dt, d) ==
    [dt EXCEPT !.day = IF d < 1 THEN 1
                       ELSE IF d > DaysInMonth(dt.year, dt.month)
                            THEN DaysInMonth(dt.year, dt.month) ELSE d]

\* date.setDate(d)
setDate(dt, d) ==
    LET md == MakeDay(dt.year, dt.month, d)
    IN  [dt EXCEPT !.year = md.year, !.month = md.month, !.day = md.day]

\* date.setMonth(m): the day of the month is kept and carries over when the
\* month is shorter
setMonth(dt, m) ==
    LET md == MakeDay(dt.year, m, dt.day)
    IN  [dt EXCEPT !.year = md.year, !.month = md.month, !.day = md.day]

\* date.setHours(h, mi, sec, ms)
setHours(dt, h, mi, sec, ms) == [dt EXCEPT !.time = <<h, mi, sec, ms>>]

getStartOfDay(dt) == getTime(setHours(dt, 0, 0, 0, 0))

getEndOfDay(dt) == getTime(setHours(dt, 23, 59, 59, 999))

\* a week that starts on Monday
getStartOfWeekMonday(dt) ==
    LET day == getDay(dt)
    IN  getTime(setHours(setDate(dt, dt.day - day + 1), 0, 0, 0, 0))

getStartOfWeek(dt) ==
    LET day == getDay(dt)
    IN  getTime(setHours(setDate(dt, dt.day - day), 0, 0, 0, 0))

getEndOfWeek(dt) ==
    LET day == getDay(dt)
    IN  getTime(setHours(setDate(dt, dt.day + (6 - day)), 23, 59, 59, 999))

getStartOfMonth(dt) == getTime(setHours(setDate(dt, 1), 0, 0, 0, 0))

getEndOfMonth(dt) ==
    getTime(setHours(setDate(setMonth(dt, dt.month + 1), 0), 23, 59, 59, 999))

getStartOfPreviousMonth(dt) ==
    getTime(setHours(setDate(setMonth(dt, dt.month - 1), 1), 0, 0, 0, 0))

getEndOfPreviousMonth(dt) == getTime(setHours(setDate(dt, 0), 23, 59, 59, 999))

\* every day of a common year and of a leap year, early, late and in between
ReferenceDates ==
    {dt \in [year : 2023..(2022 + MaxYears), month : 0..11, day : 1..31,
             time : {<<0, 0, 0, 0>>, <<12, 30, 15, 500>>, <<23, 59, 59, 999>>}] :
         dt.day <= DaysInMonth(dt.year, dt.month)}

InitDates ==
    /\ stores = [n \in StoreNames |-> {}]
    /\ ops = [s \in Slots |-> IdleOp]
    /\ txQueue = <<>>
    /\ now = 1
    /\ prior = {}
    /\ version = 0
    /\ schema = NoSchema
    /\ date \in ReferenceDates
    /\ window = NoWindow
    /\ ledger = <<>>
    /\ view = NoView
    /\ dbInitialized = FALSE /\ loading = TRUE /\ created = {} /\ journal = NoJournal
    /\ categories = <<>>

\* a caller computes the bounds of the day of the reference date
DayWindow ==
    /\ window' = [period |-> "daily", start |-> getStartOfDay(date),
                  end |-> getEndOfDay(date)]
    /\ UNCHANGED <<database, date, screens, application>>

\* ... of its week
WeekWindow ==
    /\ window' = [period |-> "weekly", start |-> getStartOfWeek(date),
                  end |-> getEndOfWeek(date)]
    /\ UNCHANGED <<database, date, screens, application>>

\* ... of its month
MonthWindow ==
    /\ window' = [period |-> "monthly", start |-> getStartOfMonth(date),
                  end |-> getEndOfMonth(date)]
    /\ UNCHANGED <<database, date, screens, application>>

\* ... of the month before (the chart's comparison)
PreviousMonthWindow ==
    /\ window' = [period |-> "previousMonth", start |-> getStartOfPreviousMonth(date),
                  end |-> getEndOfPreviousMonth(date)]
    /\ UNCHANGED <<database, date, screens, application>>

NextDates == DayWindow \/ WeekWindow \/ MonthWindow \/ PreviousMonthWindow

SpecDates == InitDates /\ [][NextDates]_vars

\* ------------------------------------------------------- the aggregation
\* a JavaScript number that came out of a division: a fraction n / d in
\* lowest terms with d > 0, or NaN, Infinity, -Infinity where d = 0
RECURSIVE GCD(_, _)
GCD(a, b) == IF b = 0 THEN a ELSE GCD(b, a % b)

\* Math.abs
Abs(x) == IF x < 0 THEN -x ELSE x

NaN == [n |-> 0, d |-> 0]
Infinity == [n |-> 1, d |-> 0]
MinusInfinity == [n |-> -1, d |-> 0]

Whole(k) == [n |-> k, d |-> 1]

\* (a / b) * 100 for whole numbers a and b
Percent(a, b) ==
    IF b = 0 THEN (IF a = 0 THEN NaN ELSE IF a > 0 THEN Infinity ELSE MinusInfinity)
    ELSE LET g == GCD(Abs(a * 100), Abs(b))
             s == IF b < 0 THEN -1 ELSE 1
         IN  [n |-> (s * a * 100) \div g, d |-> Abs(b) \div g]

\* x >= k for a number x and a whole number k: false of NaN
AtLeast(x, k) == IF x.d = 0 THEN x.n > 0 ELSE x.n >= k * x.d

\* the ids of the categories built into the application
DEFAULT_CATEGORIES ==
    <<"food", "transport", "shopping", "entertainment", "utilities", "health", "other">>

\* the amounts the form can give an expense (it rejects amount <= 0)
Amounts == {20, 30}

\* a built-in category and one the user made
ExpenseCategories == {"food", "gym"}

\* a comparison of two timestamps: a <= b
NotLater(a, b) == a[1] < b[1] \/ (a[1] = b[1] /\ a[2] <= b[2])

\* a filter that leaves out an expense at the very end of the window
InPeriodEndExcluded(e, start, end) ==
    NotLater(start, e.timestamp) /\ NotLater(e.timestamp, end) /\ e.timestamp # end

\* expense.timestamp >= start && expense.timestamp <= end
InPeriod(e, start, end) == NotLater(start, e.timestamp) /\ NotLater(e.timestamp, end)

\* list.filter(expense in the window)
FilterPeriod(list, start, end) == SelectSeq(list, LAMBDA e : InPeriod(e, start, end))

\* list.reduce((sum, expense) => sum + expense.amount, 0)
RECURSIVE SumAmounts(_)
SumAmounts(list) ==
    IF list = <<>> THEN 0 ELSE SumAmounts(SubSeq(list, 1, Len(list) - 1)) + list[Len(list)].amount

\* a Map from category id to an entry, in the order of insertion; the entries
\* of the three components differ in their display fields only
IndexOfKey(map, id) ==
    LET found == {i \in 1..Len(map) : map[i].id = id}
    IN  IF found = {} THEN 0 ELSE CHOOSE i \in found : TRUE

\* the map initialised "with all categories": one blank entry per built-in id
InitialMap(table, blank) == [i \in 1..Len(table) |-> [blank EXCEPT !.id = table[i]]]

\* a forEach that skips an expense whose category is not in the map
RECURSIVE AddAmountsKnown(_, _, _)
AddAmountsKnown(map, list, blank) ==
    IF list = <<>> THEN map
    ELSE LET e == Head(list)
             i == IndexOfKey(map, e.category)
         IN  AddAmountsKnown(IF i = 0 THEN map
                             ELSE [map EXCEPT ![i].value = @ + e.amount],
                             Tail(list), blank)

\* expenses.forEach: add the amount to the entry of the expense's category,
\* or set a new entry for a category that is not in the predefined list
RECURSIVE AddAmounts(_, _, _)
AddAmounts(map, list, blank) ==
    IF list = <<>> THEN map
    ELSE LET e == Head(list)
             i == IndexOfKey(map, e.category)
         IN  AddAmounts(IF i = 0
                        THEN Append(map, [blank EXCEPT !.id = e.category,
                                                       !.value = e.amount])
                        ELSE [map EXCEPT ![i].value = @ + e.amount],
                        Tail(list), blank)

\* if (total > 0) every entry gets percentage (value / total) * 100
CalculatePercentages(map, total) ==
    IF total > 0
    THEN [i \in 1..Len(map) |-> [map[i] EXCEPT !.percentage = Percent(map[i].value, total)]]
    ELSE map

\* a filter that keeps every category
PositiveValuesAll(list) == list

\* .filter((category) => category.value > 0)
PositiveValues(list) == SelectSeq(list, LAMBDA c : c.value > 0)

\* .sort((a, b) => b.value - a.value): descending, equal values keep their order
RECURSIVE SortByValue(_)
SortByValue(list) ==
    IF Len(list) <= 1 THEN list
    ELSE LET rest == SortByValue(SubSeq(list, 1, Len(list) - 1))
             x == list[Len(list)]
             k == Cardinality({i \in 1..Len(rest) : rest[i].value >= x.value})
         IN  SubSeq(rest, 1, k) \o <<x>> \o SubSeq(rest, k + 1, Len(rest))

\* the chart's breakdown: entries without a percentage
groupExpensesByCategory(expenses) ==
    LET blank == [id |-> "", value |-> 0]
    IN  SortByValue(PositiveValues(
            AddAmounts(InitialMap(DEFAULT_CATEGORIES, blank), expenses, blank)))

\* the map of the category summary and of the export data once the
\* percentages are calculated (there the field "value" is called "amount")
CategoryMap(expenses, total) ==
    LET blank == [id |-> "", value |-> 0, percentage |-> Whole(0)]
    IN  CalculatePercentages(
            AddAmounts(InitialMap(DEFAULT_CATEGORIES, blank), expenses, blank), total)

\* the breakdown made of the map
CategoryData(expenses, total) == SortByValue(PositiveValues(CategoryMap(expenses, total)))

\* calculateTotals() of the main page at the instant nowDate
calculateTotals(expenses, nowDate) ==
    LET dayStart == getStartOfDay(nowDate)
        dayEnd == getEndOfDay(nowDate)
        weekStart == getStartOfWeek(nowDate)
        weekEnd == getEndOfWeek(nowDate)
        monthStart == getStartOfMonth(nowDate)
        monthEnd == getEndOfMonth(nowDate)
        monthly == SumAmounts(FilterPeriod(expenses, monthStart, monthEnd))
    IN  [of |-> "totals",
         daily |-> SumAmounts(FilterPeriod(expenses, dayStart, dayEnd)),
         weekly |-> SumAmounts(FilterPeriod(expenses, weekStart, weekEnd)),
         monthly |-> monthly,
         categoryData |-> CategoryData(FilterPeriod(expenses, monthStart, monthEnd), monthly)]

\* fetchData() of the category summary at the instant nowDate
CategorySummary(expenses, nowDate) ==
    LET monthStart == getStartOfMonth(nowDate)
        monthEnd == getEndOfMonth(nowDate)
        currentMonthExpenses == FilterPeriod(expenses, monthStart, monthEnd)
        total == SumAmounts(currentMonthExpenses)
    IN  [of |-> "summary", totalSpent |-> total,
         categoryMap |-> CategoryMap(currentMonthExpenses, total),
         categories |-> CategoryData(currentMonthExpenses, total)]

\* a timestamp is <<local day number, milliseconds into the local day>>; the
\* time zone is the number of hours local time is ahead of UTC
Zones == {-5, 0, 1}

\* the date part of new Date(t).toISOString(), which is in UTC, as a day number
toISODate(t, zone) ==
    LET ms == t[2] - zone * 3600000
    IN  IF ms < 0 THEN t[1] - 1 ELSE IF ms >= 86400000 THEN t[1] + 1 ELSE t[1]

\* new Date(t).getDate(): the day of the month in local time
getDate(t) ==
    LET y == 1970 + (t[1] \div 366)
    IN  MakeDay(y, 0, t[1] - DayFromYear(y) + 1).day

\* the days the loop "for (day = start; day <= end; day.setDate(day.getDate() + 1))"
\* visits: the same local time of day on consecutive local days
LoopDays(startDate, endDate) ==
    IF NotLater(startDate, endDate)
    THEN (endDate[1] - startDate[1]) + (IF startDate[2] <= endDate[2] THEN 1 ELSE 0)
    ELSE 0

\* groupExpensesByDay(expenses, startDate, endDate): the map's keys are the ISO
\* dates of the days visited, so they are distinct and in ascending order,
\* and the final sort by date leaves the buckets as they are
groupExpensesByDay(expenses, startDate, endDate, zone) ==
    [k \in 1..LoopDays(startDate, endDate) |->
        LET day == <<startDate[1] + k - 1, startDate[2]>>
            dateStr == toISODate(day, zone)
        IN  [date |-> dateStr,
             amount |-> SumAmounts(SelectSeq(expenses,
                            LAMBDA e : toISODate(e.timestamp, zone) = dateStr)),
             formattedDate |-> getDate(day)]]

\* a change relative to the old value with its sign
calculatePercentageChangeSigned(oldValue, newValue) ==
    IF oldValue = 0 THEN (IF newValue = 0 THEN Whole(0) ELSE Whole(100))
    ELSE Percent(newValue - oldValue, oldValue)

calculatePercentageChange(oldValue, newValue) ==
    IF oldValue = 0 THEN (IF newValue = 0 THEN Whole(0) ELSE Whole(100))
    ELSE Percent(newValue - oldValue, Abs(oldValue))

\* a classification whose boundaries belong to the lower class
getBudgetStatusAbove(percentage) ==
    IF AtLeast(percentage, 100) /\ percentage # Whole(100) THEN "over"
    ELSE IF AtLeast(percentage, 80) /\ percentage # Whole(80) THEN "near"
    ELSE "under"

getBudgetStatus(percentage) ==
    IF AtLeast(percentage, 100) THEN "over"
    ELSE IF AtLeast(percentage, 80) THEN "near"
    ELSE "under"

\* getExpensesByPeriod(startTime, endTime) when its read succeeds: the stored
\* expenses of the closed range
getExpensesByPeriod(stored, startTime, endTime) == FilterPeriod(stored, startTime, endTime)

\* calculateCurrentSpending(category, period) at the instant nowDate
calculateCurrentSpending(category, period, stored, nowDate) ==
    LET startTime == CASE period = "daily" -> getStartOfDay(nowDate)
                       [] period = "weekly" -> getStartOfWeek(nowDate)
                       [] OTHER -> getStartOfMonth(nowDate)
        endTime == CASE period = "daily" -> getEndOfDay(nowDate)
                     [] period = "weekly" -> getEndOfWeek(nowDate)
                     [] OTHER -> getEndOfMonth(nowDate)
        expenses == getExpensesByPeriod(stored, startTime, endTime)
        categoryExpenses == SelectSeq(expenses, LAMBDA e : e.category = category)
    IN  SumAmounts(categoryExpenses)

\* a percentage that divides whatever the goal's amount is
BudgetPercentageUnguarded(currentAmount, amount) == Percent(currentAmount, amount)

\* goal.amount > 0 ? (currentAmount / goal.amount) * 100 : 0
BudgetPercentage(currentAmount, amount) ==
    IF amount > 0 THEN Percent(currentAmount, amount) ELSE Whole(0)

\* the statuses loadBudgetGoals() computes for the goals read
loadBudgetGoals(goals, stored, nowDate) ==
    [i \in 1..Len(goals) |->
        LET goal == goals[i]
            currentAmount == calculateCurrentSpending(goal.category, goal.period, stored, nowDate)
            percentage == BudgetPercentage(currentAmount, goal.amount)
        IN  [id |-> goal.id, category |-> goal.category, goal |-> goal.amount,
             current |-> currentAmount, percentage |-> percentage,
             period |-> goal.period, status |-> getBudgetStatus(percentage)]]

\* ------------------------------------------ the components that aggregate
\* reference instants: the last day of a 31-day month, a day inside a month
\* and a week, the first day of a month that is the last day of a week
AggregationDates ==
    {[year |-> 2023, month |-> 0, day |-> 31, time |-> <<12, 30, 15, 500>>],
     [year |-> 2023, month |-> 2, day |-> 15, time |-> <<12, 30, 15, 500>>],
     [year |-> 2023, month |-> 3, day |-> 1, time |-> <<12, 30, 15, 500>>]}

\* first and last day of the day, the week and the month of the date
PeriodDays(period, dt) ==
    LET n == DayNumber(dt)
    IN  CASE period = "daily" -> <<n, n>>
          [] period = "weekly" -> <<n - getDay(dt), n - getDay(dt) + 6>>
          [] OTHER -> <<n - dt.day + 1, n - dt.day + DaysInMonth(dt.year, dt.month)>>

\* the instants at the edges of the period: the last before it, its first,
\* its last and the first after it
Edges(period, dt) ==
    LET days == PeriodDays(period, dt)
    IN  {<<days[1] - 1, 86399999>>, <<days[1], 0>>,
         <<days[2], 86399999>>, <<days[2] + 1, 0>>}

\* the expense lists over the given categories and instants
Ledgers(ids, instants) ==
    UNION {[1..n -> [amount : Amounts, category : ids, timestamp : instants]] :
              n \in 0..MaxExpenses}

InitTotals ==
    /\ stores = [n \in StoreNames |-> {}]
    /\ ops = [s \in Slots |-> IdleOp]
    /\ txQueue = <<>>
    /\ now = 1
    /\ prior = {}
    /\ version = 0
    /\ schema = NoSchema
    /\ date \in AggregationDates
    /\ window = NoWindow
    /\ \E period \in Periods : ledger \in Ledgers(ExpenseCategories, Edges(period, date))
    /\ view = NoView
    /\ dbInitialized = FALSE /\ loading = TRUE /\ created = {} /\ journal = NoJournal
    /\ categories = <<>>

\* the budget goals read from the store: one of each period, one without an
\* amount, two of different categories
GoalInputs ==
    [id : {1}, category : {"food"}, amount : {25}, period : Periods]
        \cup {[id |-> 1, category |-> "food", amount |-> 0, period |-> "monthly"]}

GoalLists ==
    {<<>>} \cup {<<goal>> : goal \in GoalInputs}
           \cup {<<[id |-> 1, category |-> "food", amount |-> 100, period |-> "monthly"],
                   [id |-> 2, category |-> "gym", amount |-> 25, period |-> "weekly"]>>}

\* the main page recomputes its totals
CalculateTotals ==
    /\ view' = calculateTotals(ledger, date)
    /\ UNCHANGED <<database, calendar, ledger, categories, application>>

\* the category summary loads
FetchCategorySummary ==
    /\ view' = CategorySummary(ledger, date)
    /\ UNCHANGED <<database, calendar, ledger, categories, application>>

\* the expense chart groups the month's expenses by category
GroupByCategory ==
    /\ view' = [of |-> "byCategory",
                categoryData |-> groupExpensesByCategory(
                    FilterPeriod(ledger, getStartOfMonth(date), getEndOfMonth(date)))]
    /\ UNCHANGED <<database, calendar, ledger, categories, application>>

\* the budget page loads the goals and computes their statuses
LoadBudgetGoals ==
    /\ \E goals \in GoalLists :
          view' = [of |-> "budget", goals |-> goals,
                   statuses |-> loadBudgetGoals(goals, ledger, date)]
    /\ UNCHANGED <<database, calendar, ledger, categories, application>>

\* the main page, the category summary and the chart's breakdown
NextTotals == CalculateTotals \/ FetchCategorySummary \/ GroupByCategory

SpecTotals == InitTotals /\ [][NextTotals]_vars

\* the expense chart's daily series: windows of whole days that begin on the
\* reference date, expenses early and late on the days of the longest window
ChartDates == {dt \in AggregationDates : dt.month < 3}

ChartInstants(dt) ==
    {<<DayNumber(dt) + i, ms>> : i \in 0..(MaxDays - 1), ms \in {0, 86399999}}

InitChart ==
    /\ stores = [n \in StoreNames |-> {}]
    /\ ops = [s \in Slots |-> IdleOp]
    /\ txQueue = <<>>
    /\ now = 1
    /\ prior = {}
    /\ version = 0
    /\ schema = NoSchema
    /\ date \in ChartDates
    /\ window = NoWindow
    /\ ledger \in Ledgers({"food"}, ChartInstants(date))
    /\ view = NoView
    /\ dbInitialized = FALSE /\ loading = TRUE /\ created = {} /\ journal = NoJournal
    /\ categories = <<>>

\* the chart groups the expenses by day over a window of n days, in some
\* time zone
GroupByDay ==
    /\ \E zone \in Zones, n \in 1..MaxDays :
          LET startDate == getStartOfDay(date)
              endDate == <<startDate[1] + n - 1, 86399999>>
          IN  view' = [of |-> "byDay", zone |-> zone, start |-> startDate, end |-> endDate,
                       buckets |-> groupExpensesByDay(ledger, startDate, endDate, zone)]
    /\ UNCHANGED <<database, calendar, ledger, categories, application>>

NextChart == GroupByDay

SpecChart == InitChart /\ [][NextChart]_vars

\* the budget page and the category summary
NextBudget == LoadBudgetGoals \/ FetchCategorySummary

SpecBudget == InitTotals /\ [][NextBudget]_vars

\* ------------------------------------------------ the numeric functions
\* old and new values of a comparison
ChangeValues == {k * 50 : k \in (0 - MaxValue)..MaxValue}

\* spending in tenths of a percent of a goal of 1000, around the boundaries,
\* and none, 85 of a goal of 100, far above
SpendValues == {0, 85, 1500} \cup (800 - MaxTenths)..(800 + MaxTenths)
                         \cup (1000 - MaxTenths)..(1000 + MaxTenths)

InitNumbers ==
    /\ stores = [n \in StoreNames |-> {}]
    /\ ops = [s \in Slots |-> IdleOp]
    /\ txQueue = <<>>
    /\ now = 1
    /\ prior = {}
    /\ version = 0
    /\ schema = NoSchema
    /\ date = NoDate
    /\ window = NoWindow
    /\ ledger = <<>>
    /\ view = NoView
    /\ dbInitialized = FALSE /\ loading = TRUE /\ created = {} /\ journal = NoJournal
    /\ categories = <<>>

\* a caller compares two values
PercentageChange ==
    /\ \E oldValue, newValue \in ChangeValues :
          view' = [of |-> "change", oldValue |-> oldValue, newValue |-> newValue,
                   change |-> calculatePercentageChange(oldValue, newValue)]
    /\ UNCHANGED <<database, calendar, ledger, categories, application>>

\* the budget page classifies the spending against a goal
BudgetStatus ==
    /\ \E currentAmount \in SpendValues, amount \in {0, 100, 1000} :
          LET percentage == BudgetPercentage(currentAmount, amount)
          IN  view' = [of |-> "status", current |-> currentAmount, goal |-> amount,
                       percentage |-> percentage, status |-> getBudgetStatus(percentage)]
    /\ UNCHANGED <<database, calendar, ledger, categories, application>>

NextNumbers == PercentageChange \/ BudgetStatus

SpecNumbers == InitNumbers /\ [][NextNumbers]_vars

\* ------------------------------------------- the chart's month comparison
\* totals of the previous and of the current month
MonthTotals == {k * 50 : k \in (0 - MaxValue)..(3 * MaxValue)}

\* a comparison that shows no change when the previous month had none
percentChangeFlat(previousTotal, currentTotal) ==
    IF previousTotal > 0 THEN Percent(currentTotal - previousTotal, previousTotal)
    ELSE Whole(0)

\* fetchData() of the expense chart: the percent change
percentChange(previousTotal, currentTotal) ==
    IF previousTotal > 0 THEN Percent(currentTotal - previousTotal, previousTotal)
    ELSE IF currentTotal > 0 THEN Whole(100)
    ELSE Whole(0)

\* the expense chart loads and compares the totals of the two months
FetchChartData ==
    /\ \E previousTotal, currentTotal \in MonthTotals :
          view' = [of |-> "chart", previousMonthTotal |-> previousTotal,
                   currentMonthTotal |-> currentTotal,
                   percentChange |-> percentChange(previousTotal, currentTotal)]
    /\ UNCHANGED <<database, calendar, ledger, categories, application>>

NextCompare == FetchChartData \/ PercentageChange

SpecCompare == InitNumbers /\ [][NextCompare]_vars

\* ------------------------------------------------- the country lookup
\* the geolocation APIs, in the order of the list
apis == <<"https://ipapi.co/json/", "https://ipinfo.io/json", "https://ip-api.com/json">>

\* the country codes that have a flag in countryFlags; a flag is named by
\* its code and "globe" is the fallback
countryFlags == {"US", "GB", "CA", "AU", "DE", "FR", "IN", "NG", "BR", "JP", "CN",
                 "ZA", "MX", "ES", "IT", "NL", "RU", "KR", "SE", "CH", "NO", "DK",
                 "FI", "SG", "AE"}

\* a response body: whether response.json() resolves, whether its value is
\* truthy, and the four fields the function reads ("" for a missing field)
Body(parses, truthy, country_code, country_name, country, countryCode) ==
    [parses |-> parses, truthy |-> truthy, country_code |-> country_code,
     country_name |-> country_name, country |-> country, countryCode |-> countryCode]

NoBody == Body(FALSE, FALSE, "", "", "", "")

\* not JSON, the JSON value null, an object without a country, and the
\* formats of ipapi.co, ipinfo.io and ip-api.com
Bodies ==
    {NoBody,
     Body(TRUE, FALSE, "", "", "", ""),
     Body(TRUE, TRUE, "", "", "", ""),
     Body(TRUE, TRUE, "NG", "Nigeria", "", ""),
     Body(TRUE, TRUE, "", "", "DE", ""),
     Body(TRUE, TRUE, "", "", "France", "FR"),
     Body(TRUE, TRUE, "", "", "", "XK")}

\* what a fetch can come to: a response with a status and a body, or a throw
FetchOutcomes ==
    [status : {200}, body : Bodies]
        \cup [status : {429, 500}, body : {NoBody}]
        \cup [status : {0}, body : {NoBody}]

\* fetch() threw (status 0 stands for no response)
Threw(response) == response.status = 0

\* response.ok
Ok(response) == response.status >= 200 /\ response.status <= 299

\* a || b for strings
OrElse(a, b) == IF a # "" THEN a ELSE b

\* getBrowserLanguageBasedCountry()
getBrowserLanguageBasedCountry == [code |-> "UN", name |-> "Unknown", flag |-> "globe"]

\* a record that keeps an empty code and name
CountryOfNoDefault(data) ==
    LET countryCode == IF data.country_code # "" THEN data.country_code
                       ELSE IF data.country # "" THEN data.country
                       ELSE data.countryCode
        countryName == IF data.country_code # ""
                       THEN OrElse(data.country_name, data.country)
                       ELSE data.country
    IN  [code |-> countryCode, name |-> countryName,
         flag |-> IF countryCode \in countryFlags THEN countryCode ELSE "globe"]

\* the record made of the parsed body
CountryOf(data) ==
    LET found == IF data.country_code # ""
                 THEN <<data.country_code, OrElse(data.country_name, data.country)>>
                 ELSE IF data.country # ""
                      THEN <<data.country, OrElse(data.country_name, data.country)>>
                 ELSE IF data.countryCode # ""
                      THEN <<data.countryCode, data.country>>
                 ELSE <<"", "">>
        countryCode == OrElse(found[1], "UN")
        countryName == OrElse(found[2], "Unknown")
    IN  [code |-> countryCode, name |-> countryName,
         flag |-> IF countryCode \in countryFlags THEN countryCode ELSE "globe"]

NoCountry == [code |-> "", name |-> "", flag |-> ""]

\* getUserCountryFromIP is called
InitGeo ==
    /\ stores = [n \in StoreNames |-> {}]
    /\ ops = [s \in Slots |-> IdleOp]
    /\ txQueue = <<>>
    /\ now = 1
    /\ prior = {}
    /\ version = 0
    /\ schema = NoSchema
    /\ date = NoDate
    /\ window = NoWindow
    /\ ledger = <<>>
    /\ view = [of |-> "geo", pc |-> "loop", apiIndex |-> 0, requests |-> <<>>,
               responses |-> <<>>, data |-> NoBody, result |-> NoCountry]
    /\ dbInitialized = FALSE /\ loading = TRUE /\ created = {} /\ journal = NoJournal
    /\ categories = <<>>

\* while (apiIndex < apis.length): response = await fetch(apis[apiIndex], ...)
Fetch ==
    /\ view.of = "geo" /\ view.pc = "loop"
    /\ view.apiIndex < Len(apis)
    /\ view' = [view EXCEPT !.pc = "fetching",
                            !.requests = Append(@, apis[view.apiIndex + 1])]
    /\ UNCHANGED <<database, calendar, ledger, categories, application>>

\* the fetch settles: an OK response goes on to response.json(); a 429, any
\* other status and a throw move to the next API
Respond ==
    /\ view.of = "geo" /\ view.pc = "fetching"
    /\ \E response \in FetchOutcomes :
          view' = [view EXCEPT !.responses = Append(@, response),
                               !.pc = IF ~Threw(response) /\ Ok(response)
                                      THEN "parsing" ELSE "loop",
                               !.apiIndex = IF ~Threw(response) /\ Ok(response)
                                            THEN @ ELSE @ + 1]
    /\ UNCHANGED <<database, calendar, ledger, categories, application>>

\* data = await response.json(); break. A rejection is caught by the catch
\* inside the loop, which moves to the next API
Json ==
    /\ view.of = "geo" /\ view.pc = "parsing"
    /\ LET body == view.responses[Len(view.responses)].body
       IN  view' = IF body.parses
                   THEN [view EXCEPT !.data = body, !.pc = "after"]
                   ELSE [view EXCEPT !.pc = "loop", !.apiIndex = @ + 1]
    /\ UNCHANGED <<database, calendar, ledger, categories, application>>

\* after the loop: the default if (!data), else the record made of data
Return ==
    /\ view.of = "geo"
    /\ \/ view.pc = "after"
       \/ view.pc = "loop" /\ view.apiIndex >= Len(apis)
    /\ view' = [view EXCEPT !.pc = "returned",
                            !.result = IF ~view.data.truthy
                                       THEN getBrowserLanguageBasedCountry
                                       ELSE CountryOf(view.data)]
    /\ UNCHANGED <<database, calendar, ledger, categories, application>>

NextGeo == Fetch \/ Respond \/ Json \/ Return

SpecGeo == InitGeo /\ [][NextGeo]_vars

\* a fetch settles (the HTTP client gives up on a server that does not
\* answer) and the function's own steps are taken
SpecGeoLive == SpecGeo /\ WF_vars(NextGeo)

\* ------------------------------------------------- the category lists
\* ids a custom category can have (the slug of its name), in the order
\* getAll() returns them: two that are built-in ids and two that are not
CustomIds == <<"food", "gym", "other", "rent">>

\* the built-in table of the budget page: it has no "other"
BudgetDefaultCategories == SubSeq(DEFAULT_CATEGORIES, 1, 6)

\* the built-in table of the component
TableOf(component) ==
    IF component = "budget" THEN BudgetDefaultCategories ELSE DEFAULT_CATEGORIES

\* the entries of a built-in table and of a list of custom categories
BuiltIn(table) == [k \in 1..Len(table) |-> [id |-> table[k], custom |-> FALSE]]
Custom(ids) == [k \in 1..Len(ids) |-> [id |-> ids[k], custom |-> TRUE]]

\* what getCustomCategories() resolves with: the persisted categories by id
CustomCategories(persisted) == Custom(SelectSeq(CustomIds, LAMBDA id : id \in persisted))

\* a merge that pushes every custom category
MergeCustomAll(allCategories, customCategories) == allCategories \o customCategories

\* customCategories.forEach: push the category unless some entry has its id
RECURSIVE MergeCustom(_, _)
MergeCustom(allCategories, customCategories) ==
    IF customCategories = <<>> THEN allCategories
    ELSE LET cat == Head(customCategories)
         IN  MergeCustom(IF \E k \in 1..Len(allCategories) : allCategories[k].id = cat.id
                         THEN allCategories
                         ELSE Append(allCategories, cat),
                         Tail(customCategories))

\* a component with a category list mounts: the budget page starts from its
\* built-in table, the transaction list from an empty list; nothing is
\* persisted yet
InitMerge ==
    /\ stores = [n \in StoreNames |-> {}]
    /\ ops = [s \in Slots |-> IdleOp]
    /\ txQueue = <<>>
    /\ now = 1
    /\ prior = {}
    /\ version = 0
    /\ schema = NoSchema
    /\ date = NoDate
    /\ window = NoWindow
    /\ ledger = <<>>
    /\ view = NoView
    /\ dbInitialized = FALSE /\ loading = TRUE /\ created = {} /\ journal = NoJournal
    /\ categories \in
          {[component |-> "budget", list |-> BuiltIn(BudgetDefaultCategories),
            built |-> TRUE, persisted |-> {}, offered |-> {}],
           [component |-> "transactions", list |-> <<>>,
            built |-> FALSE, persisted |-> {}, offered |-> {}]}

\* loadCategories() of the budget page: the list is set only when there are
\* custom categories; a read that fails gives none
LoadBudgetCategories ==
    /\ categories.component = "budget"
    /\ \E customCategories \in {<<>>, CustomCategories(categories.persisted)} :
          categories' =
             IF Len(customCategories) > 0
             THEN [categories EXCEPT
                      !.list = MergeCustom(BuiltIn(BudgetDefaultCategories), customCategories),
                      !.offered = {customCategories[k].id : k \in 1..Len(customCategories)}]
             ELSE categories
    /\ UNCHANGED <<database, calendar, ledger, view, application>>

\* loadCategories() of the transaction list: the list is always set
LoadTransactionCategories ==
    /\ categories.component = "transactions"
    /\ \E customCategories \in {<<>>, CustomCategories(categories.persisted)} :
          categories' =
             [categories EXCEPT
                 !.list = MergeCustom(BuiltIn(DEFAULT_CATEGORIES), customCategories),
                 !.built = TRUE,
                 !.offered = {customCategories[k].id : k \in 1..Len(customCategories)}]
    /\ UNCHANGED <<database, calendar, ledger, view, application>>

\* handleCategoryAdded(newCategory) of the budget page
handleCategoryAdded(prev, newCategory) ==
    IF \E k \in 1..Len(prev) : prev[k].id = newCategory.id
    THEN prev
    ELSE Append(prev, newCategory)

\* the dialog of the budget page saves a category and notifies the page
HandleAddCategory(id) ==
    /\ categories.component = "budget"
    /\ categories' =
          [categories EXCEPT
              !.persisted = @ \cup {id},
              !.list = handleCategoryAdded(@, [id |-> id, custom |-> TRUE]),
              !.offered = @ \cup {id}]
    /\ UNCHANGED <<database, calendar, ledger, view, application>>

\* another component saves a category while the transaction list is shown
SaveCategoryElsewhere(id) ==
    /\ categories.component = "transactions"
    /\ id \notin categories.persisted
    /\ categories' = [categories EXCEPT !.persisted = @ \cup {id}]
    /\ UNCHANGED <<database, calendar, ledger, view, application>>

NextMerge ==
    \/ LoadBudgetCategories
    \/ LoadTransactionCategories
    \/ \E k \in 1..Len(CustomIds) : HandleAddCategory(CustomIds[k])
    \/ \E k \in 1..Len(CustomIds) : SaveCategoryElsewhere(CustomIds[k])

SpecMerge == InitMerge /\ [][NextMerge]_vars

\* ------------------------------------------------ the application's list
\* FinanceApp keeps the expenses in its state and talks to the repository
\* from its handlers. The handlers' own calls run in one slot, the calls of
\* the flush effect in another, so a flush overlaps the next handler.
HandlerSlot == 1
EffectSlot == 2

\* the expense the input form builds: a fresh id (crypto.randomUUID()),
\* Date.now(), the amount typed, the selected category and the note
FormAmount == 20
FormCategory == "food"
FormNote == ""

NewExpense(id, timestamp) ==
    [id |-> id, timestamp |-> timestamp, amount |-> FormAmount,
     category |-> FormCategory, note |-> FormNote]

\* the stores an earlier session of the application left behind
EarlierSessions == {{}, {NewExpense(1, 1)}}

InitApp ==
    /\ \E earlier \in EarlierSessions :
           /\ stores = [n \in StoreNames |->
                            IF n = EXPENSES_STORE THEN earlier ELSE {}]
           /\ created = earlier
    /\ journal = NoJournal
    /\ ops = [s \in Slots |-> IdleOp]
    /\ txQueue = <<>>
    /\ now = 1
    /\ prior = {}
    /\ version = DB_VERSION
    /\ schema = FullSchema
    /\ date = NoDate
    /\ window = NoWindow
    /\ ledger = <<>>
    /\ view = NoView
    /\ categories = <<>>
    /\ dbInitialized = FALSE
    /\ loading = TRUE

\* the call a handler places in a slot
Placed(kind, arg) ==
    [IdleOp EXCEPT !.kind = kind, !.arg = arg, !.given = arg,
                   !.pc = "opening", !.outcome = "pending"]

Returned(s, kinds) == ops[s].pc = "settled" /\ ops[s].kind \in kinds

\* an effect that saves the list whenever it changed
FlushEffectUnguarded(slots, expenses, initialized) ==
    [slots EXCEPT ![EffectSlot] = Placed("saveExpenses", expenses)]

\* the effect on [expenses, dbInitialized]: saveExpenses(expenses) when the
\* database is initialized and the list is not empty
FlushEffect(slots, expenses, initialized) ==
    IF initialized /\ Len(expenses) > 0
    THEN [slots EXCEPT ![EffectSlot] = Placed("saveExpenses", expenses)]
    ELSE slots

\* initializeApp: await getExpenses()
InitializeApp ==
    /\ loading /\ ops[HandlerSlot].pc = "idle"
    /\ ops' = [ops EXCEPT ![HandlerSlot] = Placed("getExpenses", <<>>)]
    /\ prior' = stores[EXPENSES_STORE]
    /\ UNCHANGED <<stores, txQueue, now, version, schema, calendar,
                   ledger, view, categories, dbInitialized, loading, created, journal>>

\* initializeApp, the rest: setExpenses when something was saved, then the
\* settings and logUserActivity("app_open"); a rejected await skips
\* setDbInitialized(true), and the loading screen goes in both cases
Initialized ==
    /\ loading /\ Returned(HandlerSlot, {"getExpenses"})
    /\ \E logged \in BOOLEAN :
           LET read == ops[HandlerSlot].outcome = "resolved"
               savedExpenses == IF read THEN ops[HandlerSlot].result ELSE <<>>
               expenses == IF Len(savedExpenses) > 0 THEN savedExpenses ELSE ledger
           IN /\ ledger' = expenses
              /\ dbInitialized' = (read /\ logged)
              /\ ops' = FlushEffect([ops EXCEPT ![HandlerSlot] = IdleOp],
                                    expenses, read /\ logged)
    /\ loading' = FALSE
    /\ prior' = stores[EXPENSES_STORE]
    /\ UNCHANGED <<stores, txQueue, now, version, schema, calendar,
                   view, categories, created, journal>>

\* handleAddExpense of the input form: await addExpense(newExpense)
HandleAddExpense(id) ==
    /\ ~loading /\ ops[HandlerSlot].pc = "idle"
    /\ id \notin {e.id : e \in created}
    /\ LET newExpense == NewExpense(id, now)
       IN /\ ops' = [ops EXCEPT ![HandlerSlot] = Placed("addExpense", newExpense)]
          /\ created' = created \cup {newExpense}
    /\ prior' = stores[EXPENSES_STORE]
    /\ UNCHANGED <<stores, txQueue, now, version, schema, calendar,
                   ledger, view, categories, dbInitialized, loading, journal>>

\* handleDeleteTransaction of the transaction list: await deleteExpense(id)
HandleDeleteTransaction(id) ==
    /\ ~loading /\ ops[HandlerSlot].pc = "idle"
    /\ id \in {e.id : e \in created}
    /\ ops' = [ops EXCEPT ![HandlerSlot] = Placed("deleteExpense", id)]
    /\ prior' = stores[EXPENSES_STORE]
    /\ UNCHANGED <<stores, txQueue, now, version, schema, calendar,
                   ledger, view, categories, dbInitialized, loading, created, journal>>

\* onExpenseAdded and handleTransactionDeleted, once the write resolved:
\* getExpenses()
ReloadExpenses ==
    /\ Returned(HandlerSlot, {"addExpense", "deleteExpense"})
    /\ ops[HandlerSlot].outcome = "resolved"
    /\ ops' = [ops EXCEPT ![HandlerSlot] = Placed("getExpenses", <<>>)]
    /\ prior' = stores[EXPENSES_STORE]
    /\ UNCHANGED <<stores, txQueue, now, version, schema, calendar,
                   ledger, view, categories, dbInitialized, loading, created, journal>>

\* the catch blocks of the handlers: a rejected write is reported and
\* nothing is reloaded, a rejected reload sets nothing; the reset ends with
\* a toast in both cases
HandlerDone ==
    /\ \/ /\ Returned(HandlerSlot, {"addExpense", "deleteExpense"})
          /\ ops[HandlerSlot].outcome = "rejected"
       \/ /\ ~loading /\ Returned(HandlerSlot, {"getExpenses"})
          /\ ops[HandlerSlot].outcome = "rejected"
       \/ Returned(HandlerSlot, {"saveExpenses"})
    /\ Retire(HandlerSlot)

\* .then(setExpenses) of the reload, and the flush effect that follows the
\* change of the list; one flush is in flight at a time
SetExpenses ==
    /\ ~loading /\ Returned(HandlerSlot, {"getExpenses"})
    /\ ops[HandlerSlot].outcome = "resolved"
    /\ ops[EffectSlot].pc = "idle"
    /\ LET updatedExpenses == ops[HandlerSlot].result
       IN /\ ledger' = updatedExpenses
          /\ ops' = FlushEffect([ops EXCEPT ![HandlerSlot] = IdleOp],
                                updatedExpenses, dbInitialized)
    /\ prior' = stores[EXPENSES_STORE]
    /\ UNCHANGED <<stores, txQueue, now, version, schema, calendar,
                   view, categories, dbInitialized, loading, created, journal>>

\* the flush settled: .catch logs a rejection
FlushDone ==
    /\ Returned(EffectSlot, {"saveExpenses"})
    /\ Retire(EffectSlot)

\* clearAllData: setExpenses([]), then await saveExpenses([]); the effect
\* does nothing for an empty list
ClearAllData ==
    /\ ~loading /\ ops[HandlerSlot].pc = "idle"
    /\ ledger' = <<>>
    /\ ops' = [ops EXCEPT ![HandlerSlot] = Placed("saveExpenses", <<>>)]
    /\ prior' = stores[EXPENSES_STORE]
    /\ UNCHANGED <<stores, txQueue, now, version, schema, calendar,
                   view, categories, dbInitialized, loading, created, journal>>

NextApp ==
    \/ InitializeApp
    \/ Initialized
    \/ \E id \in ExpenseIds : HandleAddExpense(id)
    \/ \E id \in ExpenseIds : HandleDeleteTransaction(id)
    \/ ReloadExpenses
    \/ HandlerDone
    \/ SetExpenses
    \/ FlushDone
    \/ ClearAllData
    \/ \E s \in Slots : Steps(s)
    \/ Tick

SpecApp == InitApp /\ [][NextApp]_vars

\* ------------------------------------------------------------ the forms
\* the characters typed into an amount field
AmountChars == {"-", "0", "5", "."}
AmountTexts == UNION {[1..n -> AmountChars] : n \in 0..MaxText}

DigitValue(c) == IF c = "5" THEN 5 ELSE 0
IsDigit(c) == c \in {"0", "5"}

\* how many digits the text holds in a row from position i on
RECURSIVE DigitRun(_, _)
DigitRun(text, i) ==
    IF i <= Len(text) /\ IsDigit(text[i]) THEN 1 + DigitRun(text, i + 1) ELSE 0

\* the value of the k digits that start at position i
RECURSIVE DigitsValue(_, _, _)
DigitsValue(text, i, k) ==
    IF k = 0 THEN 0
    ELSE 10 * DigitsValue(text, i, k - 1) + DigitValue(text[i + k - 1])

RECURSIVE Power10(_)
Power10(k) == IF k = 0 THEN 1 ELSE 10 * Power10(k - 1)

\* n / d in lowest terms, d > 0
Ratio(n, d) == LET g == GCD(Abs(n), d) IN [n |-> n \div g, d |-> d \div g]

\* Number.parseFloat: an optional sign, digits, an optional point and more
\* digits; what follows is ignored; NaN when no digit was read
parseFloat(text) ==
    LET negative == Len(text) >= 1 /\ text[1] = "-"
        start == IF negative THEN 2 ELSE 1
        whole == DigitRun(text, start)
        point == start + whole <= Len(text) /\ text[start + whole] = "."
        decimals == IF point THEN DigitRun(text, start + whole + 1) ELSE 0
        digits == DigitsValue(text, start, whole) * Power10(decimals)
                  + DigitsValue(text, start + whole + 1, decimals)
    IN  IF whole + decimals = 0 THEN NaN
        ELSE Ratio(IF negative THEN -digits ELSE digits, Power10(decimals))

isNaN(x) == x.d = 0 /\ x.n = 0

\* x <= k for a number x and a whole number k: false of NaN
AtMost(x, k) == IF x.d = 0 THEN x.n < 0 ELSE x.n <= k * x.d

\* a form that lets every amount through that is a number
AmountErrorNaNOnly(amount) ==
    IF isNaN(amount) THEN "Please enter a valid number" ELSE ""

\* the validation of handleAddExpense: isNaN(amount), then amount <= 0
AmountError(amount) ==
    IF isNaN(amount) THEN "Please enter a valid number"
    ELSE IF AtMost(amount, 0) THEN "Amount must be greater than zero"
    ELSE ""

\* the validation of handleSubmit of the budget page
GoalError(category, amountValue, period) ==
    IF category = "" THEN "Please select a category"
    ELSE IF AmountError(amountValue) # "" THEN "Please enter a valid amount"
    ELSE IF period = "" THEN "Please select a period"
    ELSE ""

\* an id that no form drew: the caller that goes around the forms uses it
OtherId == 0
OtherSlot == 2

\* the budget form with no goal being edited
NoGoal == [editing |-> FALSE]
AnyAmounts == {NaN, Whole(0), Whole(-5)}

FormCategories == {"", FormCategory}
FormPeriods == {"", "monthly"}

InitForms ==
    /\ stores = [n \in StoreNames |-> {}]
    /\ ops = [s \in Slots |-> IdleOp]
    /\ txQueue = <<>>
    /\ now = 1
    /\ prior = {}
    /\ version = DB_VERSION
    /\ schema = FullSchema
    /\ date = NoDate
    /\ window = NoWindow
    /\ ledger = <<>>
    /\ view \in [of : {"typing"}, text : AmountTexts,
                 category : FormCategories, period : FormPeriods]
    /\ categories = <<>>
    /\ dbInitialized = TRUE /\ loading = FALSE /\ created = {} /\ journal = NoJournal

\* the id crypto.randomUUID() gives a form: one that no stored record has
FormId == 1
Unused(name) == {id \in {FormId} : id \notin Keys(name, stores[name])}

\* handleAddExpense of the input form, from the text typed to the call
SubmitExpense ==
    /\ view.of = "typing" /\ \A s \in Slots : ops[s].pc = "idle"
    /\ LET newAmount == view.text
           amount == parseFloat(newAmount)
           error == AmountError(amount)
       IN /\ view' = [of |-> "expenseForm", text |-> newAmount, error |-> error]
          /\ IF error # ""
             THEN UNCHANGED <<ops, prior>>
             ELSE \E id \in Unused(EXPENSES_STORE) :
                    /\ ops' = [ops EXCEPT ![HandlerSlot] =
                                  Placed("addExpense",
                                         [NewExpense(id, now) EXCEPT !.amount = amount])]
                    /\ prior' = stores[EXPENSES_STORE]
    /\ UNCHANGED <<stores, txQueue, now, version, schema, calendar,
                   ledger, categories, application>>

\* the goal the budget form saves: the edited goal with the form's values,
\* or a new one
FormGoal(editingGoal, id, category, amountValue, period) ==
    IF editingGoal # NoGoal
    THEN [editingGoal EXCEPT !.category = category, !.amount = amountValue,
                             !.period = period, !.updatedAt = now]
    ELSE [id |-> id, category |-> category, amount |-> amountValue,
          period |-> period, createdAt |-> now, updatedAt |-> now]

\* handleSubmit of the budget page
SubmitGoal(editingGoal) ==
    /\ view.of = "typing" /\ \A s \in Slots : ops[s].pc = "idle"
    /\ LET category == view.category
           period == view.period
           amountValue == parseFloat(view.text)
           error == GoalError(category, amountValue, period)
       IN /\ view' = [of |-> "goalForm", text |-> view.text, error |-> error]
          /\ IF error # ""
             THEN UNCHANGED <<ops, prior>>
             ELSE \E id \in (IF editingGoal = NoGoal THEN Unused(BUDGET_GOALS_STORE)
                              ELSE {editingGoal.id}) :
                    /\ ops' = [ops EXCEPT ![HandlerSlot] =
                                  Placed("saveBudgetGoal",
                                         FormGoal(editingGoal, id, category,
                                                  amountValue, period))]
                    /\ prior' = stores[BUDGET_GOALS_STORE]
    /\ UNCHANGED <<stores, txQueue, now, version, schema, calendar,
                   ledger, categories, application>>

\* a caller other than the forms hands the repository an amount of its own
CallWithAmount(kind, amount) ==
    /\ \A s \in Slots : ops[s].pc = "idle"
    /\ \A name \in StoreNames : OtherId \notin Keys(name, stores[name])
    /\ Call(OtherSlot, kind,
            IF kind = "addExpense"
            THEN [NewExpense(OtherId, now) EXCEPT !.amount = amount]
            ELSE FormGoal(NoGoal, OtherId, FormCategory, amount, "monthly"))

NextForms ==
    \/ SubmitExpense
    \/ \E editingGoal \in stores[BUDGET_GOALS_STORE] \cup {NoGoal} :
           SubmitGoal(editingGoal)
    \/ \E kind \in {"addExpense", "saveBudgetGoal"}, amount \in AnyAmounts :
           CallWithAmount(kind, amount)
    \/ \E s \in Slots : WriteSteps(s)
    \/ \E s \in Slots : Retire(s)

SpecForms == InitForms /\ [][NextForms]_vars

\* --------------------------------------------- handlers that overlap
\* The form enables its button as soon as addExpense resolved, while the
\* reload it asked for is still in flight, and the transaction list and the
\* reset do not wait for a reload either: a handler's call, a reload and a
\* flush share the call slots freely. indexedDB.open answers its requests in
\* the order they were made, so the transactions are created in call order.
InitOverlap ==
    /\ stores = [n \in StoreNames |-> {}]
    /\ ops = [s \in Slots |-> IdleOp]
    /\ txQueue = <<>>
    /\ now = 1
    /\ prior = {}
    /\ version = DB_VERSION
    /\ schema = FullSchema
    /\ date = NoDate
    /\ window = NoWindow
    /\ ledger = <<>>
    /\ view = NoView
    /\ categories = <<>>
    /\ dbInitialized = TRUE /\ loading = FALSE /\ created = {}
    /\ journal = NoJournal

Without(calls, s) == SelectSeq(calls, LAMBDA t : t # s)

\* the slot's call was made: it is the latest one
Latest(s) == Append(Without(journal.calls, s), s)

\* no call made before the slot's one still waits for its connection
OpensInOrder(s) ==
    ops[s].pc = "opening"
    => \A i, j \in 1..Len(journal.calls) :
           (journal.calls[j] = s /\ i < j) => ops[journal.calls[i]].pc # "opening"

CreatedIds == {e.id : e \in created}

\* handleAddExpense: await addExpense(newExpense)
AddExpenseIn(s, id) ==
    /\ ops[s].pc = "idle"
    /\ id \notin CreatedIds
    /\ LET newExpense == NewExpense(id, now)
       IN /\ ops' = [ops EXCEPT ![s] = Placed("addExpense", newExpense)]
          /\ created' = created \cup {newExpense}
    /\ journal' = [journal EXCEPT !.calls = Latest(s)]
    /\ prior' = stores[EXPENSES_STORE]
    /\ UNCHANGED <<stores, txQueue, now, version, schema, calendar,
                   ledger, view, categories, dbInitialized, loading>>

\* handleDeleteTransaction: await deleteExpense(id)
DeleteExpenseIn(s, id) ==
    /\ ops[s].pc = "idle"
    /\ id \in CreatedIds
    /\ ops' = [ops EXCEPT ![s] = Placed("deleteExpense", id)]
    /\ journal' = [journal EXCEPT !.calls = Latest(s), !.excused = @ \cup {id}]
    /\ prior' = stores[EXPENSES_STORE]
    /\ UNCHANGED <<stores, txQueue, now, version, schema, calendar,
                   ledger, view, categories, dbInitialized, loading, created>>

Resetting(s) == ops[s].kind = "saveExpenses" /\ ops[s].given = <<>>

\* clearAllData: setExpenses([]), await saveExpenses([]); one reset at a time
ClearAllDataIn(s) ==
    /\ ops[s].pc = "idle"
    /\ \A t \in Slots : ~Resetting(t)
    /\ ledger' = <<>>
    /\ ops' = [ops EXCEPT ![s] = Placed("saveExpenses", <<>>)]
    /\ journal' = [journal EXCEPT !.calls = Latest(s),
                                  !.excused = @ \cup CreatedIds,
                                  !.wiped = CreatedIds]
    /\ prior' = stores[EXPENSES_STORE]
    /\ UNCHANGED <<stores, txQueue, now, version, schema, calendar,
                   view, categories, dbInitialized, loading, created>>

\* onExpenseAdded and handleTransactionDeleted, once the write resolved:
\* getExpenses()
ReloadIn(s) ==
    /\ Returned(s, {"addExpense", "deleteExpense"})
    /\ ops[s].outcome = "resolved"
    /\ ops' = [ops EXCEPT ![s] = Placed("getExpenses", <<>>)]
    /\ journal' = IF ops[s].kind = "addExpense"
                  THEN [journal EXCEPT !.calls = Latest(s),
                                       !.added = @ \cup {ops[s].given.id}]
                  ELSE [journal EXCEPT !.calls = Latest(s),
                                       !.removed = @ \cup {ops[s].given}]
    /\ prior' = stores[EXPENSES_STORE]
    /\ UNCHANGED <<stores, txQueue, now, version, schema, calendar,
                   ledger, view, categories, dbInitialized, loading, created>>

\* .then(setExpenses) of a reload, and the flush effect that follows the
\* change of the list
SetExpensesIn(s) ==
    /\ Returned(s, {"getExpenses"})
    /\ ops[s].outcome = "resolved"
    /\ LET updatedExpenses == ops[s].result
           flushes == dbInitialized /\ Len(updatedExpenses) > 0
       IN /\ ledger' = updatedExpenses
          /\ ops' = [ops EXCEPT ![s] = IF flushes
                                       THEN Placed("saveExpenses", updatedExpenses)
                                       ELSE IdleOp]
          /\ journal' = [journal EXCEPT !.calls = IF flushes THEN Latest(s)
                                                  ELSE Without(@, s)]
    /\ prior' = stores[EXPENSES_STORE]
    /\ UNCHANGED <<stores, txQueue, now, version, schema, calendar,
                   view, categories, dbInitialized, loading, created>>

\* a rejected write or reload is reported; a flush or a reset has settled,
\* and a reset that resolved has removed what had been created before it
SettleIn(s) ==
    /\ \/ /\ Returned(s, {"addExpense", "deleteExpense", "getExpenses"})
          /\ ops[s].outcome = "rejected"
       \/ Returned(s, {"saveExpenses"})
    /\ ops' = [ops EXCEPT ![s] = IdleOp]
    /\ journal' = [journal EXCEPT
                      !.calls = Without(@, s),
                      !.removed = IF Resetting(s) /\ ops[s].outcome = "resolved"
                                  THEN @ \cup journal.wiped
                                  ELSE @]
    /\ UNCHANGED <<stores, txQueue, now, prior, version, schema, calendar,
                   ledger, view, categories, dbInitialized, loading, created>>

NextOverlap ==
    \/ \E s \in Slots, id \in ExpenseIds : AddExpenseIn(s, id)
    \/ \E s \in Slots, id \in ExpenseIds : DeleteExpenseIn(s, id)
    \/ \E s \in Slots : ClearAllDataIn(s)
    \/ \E s \in Slots : ReloadIn(s)
    \/ \E s \in Slots : SetExpensesIn(s)
    \/ \E s \in Slots : SettleIn(s)
    \/ \E s \in Slots : OpensInOrder(s) /\ Steps(s)

SpecOverlap == InitOverlap /\ [][NextOverlap]_vars

\* ------------------------------------------------- the totals effect
\* FinanceApp once initializeApp has ended, with no user at the controls:
\* the effect on [expenses, dbInitialized, lastCalculationDate] is due after
\* the render that changed one of them. lastCalculationDate holds a Date
\* object; the model keeps the instant it stands for.
InitEffects ==
    /\ stores = [n \in StoreNames |-> {}]
    /\ ops = [s \in Slots |-> IdleOp]
    /\ txQueue = <<>>
    /\ now = 1
    /\ prior = {}
    /\ version = DB_VERSION
    /\ schema = FullSchema
    /\ date = NoDate
    /\ window = NoWindow
    /\ ledger = <<>>
    /\ view = [of |-> "effects", due |-> TRUE, soundDue |-> TRUE,
               lastCalculationDate |-> 0]
    /\ categories = <<>>
    /\ dbInitialized \in BOOLEAN /\ loading = FALSE /\ created = {}
    /\ journal = NoJournal

\* the effect runs calculateTotals(): with the database initialized it
\* awaits saveSetting("lastCalculationDate", now.toISOString()); without, it
\* goes on to the totals at once
TotalsEffect ==
    /\ view.of = "effects" /\ view.due
    /\ ops[HandlerSlot].pc = "idle"
    /\ view' = [view EXCEPT !.due = FALSE]
    /\ IF dbInitialized
       THEN /\ ops' = [ops EXCEPT ![HandlerSlot] =
                          Placed("saveSetting", [name |-> "lastCalculationDate",
                                                 value |-> now])]
            /\ prior' = stores[SETTINGS_STORE]
       ELSE UNCHANGED <<ops, prior>>
    /\ UNCHANGED <<stores, txQueue, now, version, schema, calendar,
                   ledger, categories, application>>

\* the await resolved: setLastCalculationDate(now) with the Date object of
\* this run, a new object at every run, so the state changes and the effect
\* is due again
SetLastCalculationDate ==
    /\ Returned(HandlerSlot, {"saveSetting"})
    /\ ops[HandlerSlot].outcome = "resolved"
    /\ view' = [view EXCEPT !.due = TRUE,
                            !.lastCalculationDate = ops[HandlerSlot].given.value]
    /\ ops' = [ops EXCEPT ![HandlerSlot] = IdleOp]
    /\ UNCHANGED <<stores, txQueue, now, prior, version, schema, calendar,
                   ledger, categories, application>>

\* the await rejected: calculateTotals() ends there, nothing is set
SaveRejected ==
    /\ Returned(HandlerSlot, {"saveSetting"})
    /\ ops[HandlerSlot].outcome = "rejected"
    /\ Retire(HandlerSlot)

\* the effect on [soundEnabled, dbInitialized]: saveSetting("soundEnabled",
\* soundEnabled) when the database is initialized
SoundEffect ==
    /\ view.of = "effects" /\ view.soundDue
    /\ ops[EffectSlot].pc = "idle"
    /\ view' = [view EXCEPT !.soundDue = FALSE]
    /\ IF dbInitialized
       THEN /\ ops' = [ops EXCEPT ![EffectSlot] =
                          Placed("saveSetting", [name |-> "soundEnabled",
                                                 value |-> 1])]
            /\ prior' = stores[SETTINGS_STORE]
       ELSE UNCHANGED <<ops, prior>>
    /\ UNCHANGED <<stores, txQueue, now, version, schema, calendar,
                   ledger, categories, application>>

\* the sound setting's save has settled: .catch logs a rejection
SoundSaved ==
    /\ Returned(EffectSlot, {"saveSetting"})
    /\ Retire(EffectSlot)

\* what the application does by itself
Progress ==
    \/ TotalsEffect
    \/ SoundEffect
    \/ SoundSaved
    \/ SetLastCalculationDate
    \/ SaveRejected
    \/ \E s \in Slots : WriteSteps(s)

NextEffects == Progress \/ Tick

SpecEffects == InitEffects /\ [][NextEffects]_vars

\* the event loop runs what is due and the engine answers its requests
SpecEffectsLive == SpecEffects /\ WF_vars(Progress)

\* ======================================================== properties
\* an operation whose transaction is over, or that never had one
Settled(op) == op.pc = "settled"

\* a read that resolved from its onsuccess handler, not from its catch block
ReadTheStore(op) == Settled(op) /\ op.outcome = "resolved" /\ op.conn = "closed"

\* number of positions of seq that hold x
Occurrences(seq, x) == Cardinality({i \in 1..Len(seq) : seq[i] = x})

DistinctIds(list) ==
    \A i, j \in 1..Len(list) : list[i].id = list[j].id => i = j

\* what getExpenses() resolves with when it reads the given contents
GetExpensesOn(contents) ==
    ResolvedValue("getExpenses", <<>>,
                  RequestResult(EXPENSES_STORE, contents,
                                RequestsOf("getExpenses", <<>>)[1]))

\* C1: once addExpense(e) has resolved on a store S that held no record with
\* id e.id, the store holds S plus e, and a getExpenses() that reads the store
\* returns every record of the store exactly once: the records of S and exactly
\* one record equal to e
C1_AddThenGetAll ==
    \A s \in Slots :
        LET op == ops[s] IN
        /\ ( /\ op.kind = "addExpense" /\ Settled(op) /\ op.outcome = "resolved"
             /\ op.arg.id \notin Keys(EXPENSES_STORE, prior) )
           => LET got == GetExpensesOn(stores[EXPENSES_STORE]) IN
              /\ Occurrences(got, op.arg) = 1
              /\ Len(got) = Cardinality(prior) + 1
              /\ \A r \in prior : Occurrences(got, r) = 1
        /\ (op.kind = "getExpenses" /\ ReadTheStore(op))
           => /\ \A r \in stores[EXPENSES_STORE] : Occurrences(op.result, r) = 1
              /\ Len(op.result) = Cardinality(stores[EXPENSES_STORE])

\* C1 witness: addExpense has resolved on a non-empty store without its id
C1_Witness ==
    \E s \in Slots :
        /\ ops[s].kind = "addExpense" /\ Settled(ops[s])
        /\ ops[s].outcome = "resolved"
        /\ prior # {}
        /\ ops[s].arg.id \notin Keys(EXPENSES_STORE, prior)

\* C2: a getExpensesByPeriod(start, end) with start <= end that reads the store
\* returns, once each, exactly the stored expenses with
\* start <= timestamp <= end, both ends included
C2_PeriodInclusive ==
    \A s \in Slots :
        LET op == ops[s] IN
        ( /\ op.kind = "getExpensesByPeriod" /\ ReadTheStore(op)
          /\ op.arg.startTime <= op.arg.endTime )
        => /\ \A r \in stores[EXPENSES_STORE] :
                 Occurrences(op.result, r) =
                     IF r.timestamp >= op.arg.startTime /\ r.timestamp <= op.arg.endTime
                     THEN 1 ELSE 0
           /\ Range(op.result) \subseteq stores[EXPENSES_STORE]

\* C2 witness: a query with start < end returned an expense at exactly start
\* and one at exactly end
C2_Witness ==
    \E s \in Slots :
        /\ ops[s].kind = "getExpensesByPeriod" /\ ReadTheStore(ops[s])
        /\ ops[s].arg.startTime < ops[s].arg.endTime
        /\ \E i, j \in 1..Len(ops[s].result) :
              /\ ops[s].result[i].timestamp = ops[s].arg.startTime
              /\ ops[s].result[j].timestamp = ops[s].arg.endTime

\* C3: once saveExpenses(L) has resolved, the expenses store holds exactly the
\* records of L, whatever it held before; after saveExpenses([]) a
\* getExpenses() that reads the store returns the empty sequence
C3_ReplaceAll ==
    \A s \in Slots :
        LET op == ops[s] IN
        (op.kind = "saveExpenses" /\ Settled(op) /\ op.outcome = "resolved")
        => /\ DistinctIds(op.arg)
           /\ stores[EXPENSES_STORE] = Range(op.arg)
           /\ op.arg = <<>> => GetExpensesOn(stores[EXPENSES_STORE]) = <<>>

\* C3 witness: saveExpenses(L) has resolved on a store that held a record
\* which is not in L
C3_Witness ==
    \E s \in Slots :
        /\ ops[s].kind = "saveExpenses" /\ Settled(ops[s])
        /\ ops[s].outcome = "resolved"
        /\ \E r \in prior : r \notin Range(ops[s].arg)

\* C4: saveExpenses(L) is all or nothing: when two records of L share an id
\* the call does not resolve, and whenever the call is over without having
\* resolved the expenses store holds exactly what it held before the call
C4_AllOrNothing ==
    \A s \in Slots :
        LET op == ops[s] IN
        (op.kind = "saveExpenses" /\ op.pc \in {"settled", "hung"})
        => /\ ~DistinctIds(op.arg) => op.outcome = "rejected"
           /\ op.outcome # "resolved" => stores[EXPENSES_STORE] = prior

\* C4 witness: a saveExpenses(L) with a repeated id was rejected after its
\* connection opened, on a store that was not empty
C4_Witness ==
    \E s \in Slots :
        /\ ops[s].kind = "saveExpenses" /\ Settled(ops[s])
        /\ ~DistinctIds(ops[s].arg)
        /\ ops[s].outcome = "rejected" /\ ops[s].conn = "open"
        /\ prior # {}

\* C5: addExpense(e) on a store that already holds a record with id e.id is
\* rejected and leaves the expenses store as it was
C5_DuplicateRejected ==
    \A s \in Slots :
        LET op == ops[s] IN
        ( /\ op.kind = "addExpense" /\ op.pc \in {"settled", "hung"}
          /\ op.arg.id \in Keys(EXPENSES_STORE, prior) )
        => /\ op.outcome = "rejected"
           /\ stores[EXPENSES_STORE] = prior

\* C5 witness: an addExpense(e) was rejected by the store, which holds another
\* record with the id of e
C5_Witness ==
    \E s \in Slots :
        /\ ops[s].kind = "addExpense" /\ Settled(ops[s])
        /\ ops[s].outcome = "rejected" /\ ops[s].conn = "open"
        /\ ops[s].arg \notin prior
        /\ ops[s].arg.id \in Keys(EXPENSES_STORE, prior)

\* C6: no read operation ever rejects: whatever fails, a read resolves, and a
\* read that did not get its result from the store resolves with the safe
\* default
C6_ReadsNeverReject ==
    \A s \in Slots :
        LET op == ops[s] IN
        (op.kind \in ReadKinds /\ Settled(op))
        => /\ op.outcome = "resolved"
           /\ op.conn # "closed" => op.result = SafeDefault(op.kind, op.arg)

\* C7: a write operation whose transaction is over without a commit has
\* rejected, a write resolves only from a committed transaction, and after a
\* rejection the store holds what it held before the call
C7_WritesRejectUnlessCommitted ==
    \A s \in Slots :
        LET op == ops[s] IN
        (op.kind \in WriteKinds /\ op.pc \in {"settled", "hung"})
        => /\ op.outcome \in {"resolved", "rejected"}
           /\ op.outcome = "resolved" => op.conn = "closed"
           /\ op.outcome = "rejected" => stores[StoreOf(op.kind)] = prior

\* connections opened and not closed
OpenConnections == Cardinality({s \in Slots : ops[s].conn = "open"})

\* C8: an operation that has settled has closed the connection it opened, so
\* when no operation is in flight no connection is open
C8_ConnectionsClosed ==
    /\ \A s \in Slots : Settled(ops[s]) => ops[s].conn # "open"
    /\ (\A s \in Slots : ops[s].pc \in {"idle", "settled"}) => OpenConnections = 0

\* C9: an operation whose transaction is over - committed, failed on a request
\* or aborted - has settled, and no operation settles more than once
C9_SettlesExactlyOnce ==
    \A s \in Slots :
        /\ ops[s].settles <= 1
        /\ ops[s].pc \in {"settled", "hung"} => ops[s].settles = 1

\* the expenses store as the last committed transaction left it
Committed ==
    LET writers == {s \in Slots : /\ StoreOf(ops[s].kind) = EXPENSES_STORE
                                  /\ ops[s].kind \in WriteKinds
                                  /\ ops[s].pc \in {"active", "committing"}}
    IN  IF writers = {} THEN stores[EXPENSES_STORE]
        ELSE ops[CHOOSE s \in writers : TRUE].undo

\* what the operation, run alone on contents S, leaves in the expenses store
SerialContents(kind, arg, S) ==
    CASE kind = "saveExpenses" -> {r \in Expense : \E i \in 1..Len(arg) : arg[i] = r}
      [] kind = "addExpense" -> S \cup {arg}
      [] kind = "deleteExpense" -> {r \in S : r.id # arg}
      [] OTHER -> S

\* whether the operation, run alone on contents S, can succeed
SerialSucceeds(kind, arg, S) ==
    CASE kind = "saveExpenses" -> DistinctIds(arg)
      [] kind = "addExpense" -> \A r \in S : r.id # arg.id
      [] OTHER -> TRUE

\* the step in which the operation in slot s resolves
Resolves(s) == ops[s].outcome = "pending" /\ ops'[s].outcome = "resolved"

\* C10: operations issued concurrently are atomic and take effect one after
\* the other: the committed contents of the expenses store change only in the
\* step in which a write resolves, and then to what that write alone makes of
\* the committed contents; a write that resolves would have succeeded alone;
\* and a getExpenses that reads the store returns the committed contents -
\* those before or those after a concurrent saveExpenses(L), never the
\* cleared or partly refilled store
C10_Serializable ==
    [][ /\ \A s \in Slots :
              (Resolves(s) /\ ops[s].kind \in WriteKinds)
              => /\ SerialSucceeds(ops[s].kind, ops[s].arg, Committed)
                 /\ Committed' = SerialContents(ops[s].kind, ops[s].arg, Committed)
        /\ Committed' # Committed
              => \E s \in Slots : Resolves(s) /\ ops[s].kind \in WriteKinds
        /\ \A s \in Slots :
              (Resolves(s) /\ ops[s].kind = "getExpenses" /\ ops'[s].conn = "closed")
              => /\ \A r \in Committed : Occurrences(ops'[s].result, r) = 1
                 /\ Len(ops'[s].result) = Cardinality(Committed)
      ]_vars

\* C10 witness: a saveExpenses has cleared or partly refilled the store in its
\* transaction while a getExpenses issued meanwhile waits for its own
C10_Witness ==
    \E s, t \in Slots :
        /\ ops[s].kind = "saveExpenses" /\ ops[s].pc = "active"
        /\ stores[EXPENSES_STORE] # ops[s].undo
        /\ stores[EXPENSES_STORE] # Range(ops[s].arg)
        /\ ops[t].kind = "getExpenses" /\ ops[t].pc = "queued"

\* C11: once deleteExpense(id) or deleteBudgetGoal(id) has resolved, the store
\* holds exactly the records it held before the call whose id is not id: the
\* record with that id is gone, every other record is as it was, and on a
\* store without that id nothing changes (a second delete changes nothing);
\* the store refuses no delete, whether or not it holds the id
C11_DeleteRemovesOnlyId ==
    \A s \in Slots :
        LET op == ops[s] IN
        /\ ( /\ op.kind \in {"deleteExpense", "deleteBudgetGoal"}
             /\ Settled(op) /\ op.outcome = "resolved" )
           => stores[StoreOf(op.kind)] = {r \in prior : r.id # op.arg}
        /\ ( /\ op.kind \in {"deleteExpense", "deleteBudgetGoal"}
             /\ op.pc = "active" )
           => ~RequestFails(StoreOf(op.kind), stores[StoreOf(op.kind)], NextRequest(op))

\* C11 witness: a delete has resolved on a store that held a record with the
\* id and a record with another id
C11_Witness ==
    \E s \in Slots :
        /\ ops[s].kind \in {"deleteExpense", "deleteBudgetGoal"}
        /\ Settled(ops[s]) /\ ops[s].outcome = "resolved"
        /\ \E r \in prior : r.id = ops[s].arg
        /\ \E r \in prior : r.id # ops[s].arg

\* the settings store as the last committed transaction left it
CommittedSettings ==
    LET writers == {s \in Slots : /\ ops[s].kind = "saveSetting"
                                  /\ ops[s].pc \in {"active", "committing"}}
    IN  IF writers = {} THEN stores[SETTINGS_STORE]
        ELSE ops[CHOOSE s \in writers : TRUE].undo

\* C12: the settings store holds at most one record per name; it changes only
\* when a saveSetting(name, v) resolves, and then the record of that name
\* becomes (name, v) while the others stay; and a getSetting(name, d) that
\* reads the store returns the value of the record of that name - also when
\* that value is falsy - and d when there is no such record.  So it returns
\* the value of the last saveSetting(name, _) that resolved, and d exactly
\* when none has
C12_LastSavedSetting ==
    [][ /\ UniqueKeys(SETTINGS_STORE, CommittedSettings')
        /\ CommittedSettings' # CommittedSettings
              => \E s \in Slots : Resolves(s) /\ ops[s].kind = "saveSetting"
        /\ \A s \in Slots :
              (Resolves(s) /\ ops[s].kind = "saveSetting")
              => CommittedSettings' =
                     {r \in CommittedSettings : r.name # ops[s].arg.name}
                     \cup {[name |-> ops[s].arg.name, value |-> ops[s].arg.value]}
        /\ \A s \in Slots :
              (Resolves(s) /\ ops[s].kind = "getSetting" /\ ops'[s].conn = "closed")
              => \/ [name |-> ops[s].arg.name, value |-> ops'[s].result]
                        \in CommittedSettings
                 \/ /\ ops'[s].result = ops[s].arg.defaultValue
                    /\ \A r \in CommittedSettings : r.name # ops[s].arg.name
      ]_vars

\* C12 witness: a getSetting has returned the falsy value that the last
\* saveSetting of that name stored, while the other setting holds another value
C12_Witness ==
    \E s \in Slots :
        /\ ops[s].kind = "getSetting" /\ ReadTheStore(ops[s])
        /\ ops[s].result = 0
        /\ [name |-> ops[s].arg.name, value |-> 0] \in stores[SETTINGS_STORE]
        /\ \E r \in stores[SETTINGS_STORE] : r.name # ops[s].arg.name /\ r.value = 1

\* the goals with the given id
GoalsWithId(contents, id) == {g \in contents : g.id = id}

\* a saveBudgetGoal has resolved on a store that held a goal with its id
SecondSave(op) ==
    /\ op.kind = "saveBudgetGoal" /\ Settled(op) /\ op.outcome = "resolved"
    /\ GoalsWithId(prior, op.arg.id) # {}

\* C13 as stated: after the second of two successful saves of goals with the
\* same id, the stored goal has the createdAt it had after the first save and
\* a later updatedAt, and it is the only goal with that id
C13_CreatedKeptUpdatedLater ==
    \A s \in Slots :
        SecondSave(ops[s])
        => /\ Cardinality(GoalsWithId(stores[BUDGET_GOALS_STORE], ops[s].arg.id)) = 1
           /\ \A p \in GoalsWithId(prior, ops[s].arg.id) :
              \A g \in GoalsWithId(stores[BUDGET_GOALS_STORE], ops[s].arg.id) :
                  g.createdAt = p.createdAt /\ g.updatedAt > p.updatedAt

\* C13 amended: after the second save the store holds exactly one goal with
\* that id; its createdAt is the one the second call's goal carried - so the
\* createdAt after the first save when the caller passed it on - and the time
\* of the second save when the goal carried none; its updatedAt is the time
\* of the second save, not earlier than the updatedAt after the first
C13_StampsOnResave ==
    \A s \in Slots :
        SecondSave(ops[s])
        => /\ Cardinality(GoalsWithId(stores[BUDGET_GOALS_STORE], ops[s].arg.id)) = 1
           /\ \A p \in GoalsWithId(prior, ops[s].arg.id) :
              \A g \in GoalsWithId(stores[BUDGET_GOALS_STORE], ops[s].arg.id) :
                  /\ ops[s].given.createdAt = p.createdAt => g.createdAt = p.createdAt
                  /\ ops[s].given.createdAt # 0 => g.createdAt = ops[s].given.createdAt
                  /\ ops[s].given.createdAt = 0 => g.createdAt = g.updatedAt
                  /\ p.updatedAt <= g.updatedAt /\ g.updatedAt <= now

\* C13 witness: a goal saved at an earlier time has been saved again, carrying
\* its createdAt, after the clock advanced
C13_Witness ==
    \E s \in Slots :
        /\ SecondSave(ops[s])
        /\ \E p \in GoalsWithId(prior, ops[s].arg.id) :
              /\ ops[s].given.createdAt = p.createdAt
              /\ p.updatedAt < ops[s].arg.updatedAt
              /\ p.createdAt < ops[s].arg.updatedAt

\* what a read of the budget goals resolves with when it reads the contents
ReadGoalsOn(kind, arg, contents) ==
    ResolvedValue(kind, arg,
                  RequestResult(BUDGET_GOALS_STORE, contents, RequestsOf(kind, arg)[1]))

\* the ids of the goals in a list
IdsIn(list) == {list[i].id : i \in 1..Len(list)}

\* C14: a getBudgetGoalsByCategory(c) that reads the store returns, once each,
\* exactly the goals getBudgetGoals() returns whose category is c, and a
\* getBudgetGoalsByPeriod(p) exactly those whose period is p; and once a goal
\* has been saved again, the lookups return it under the category and the
\* period of the last save and under no other
C14_IndexedLookups ==
    \A s \in Slots :
        LET op == ops[s]
            all == ReadGoalsOn("getBudgetGoals", <<>>, stores[BUDGET_GOALS_STORE])
        IN
        /\ ( /\ op.kind \in {"getBudgetGoalsByCategory", "getBudgetGoalsByPeriod"}
             /\ ReadTheStore(op) )
           => /\ \A g \in Range(all) \cup Range(op.result) :
                    Occurrences(op.result, g) =
                        IF /\ g \in Range(all)
                           /\ op.arg = IF op.kind = "getBudgetGoalsByCategory"
                                       THEN g.category ELSE g.period
                        THEN 1 ELSE 0
        /\ SecondSave(op)
           => /\ \A c \in CategoryIds :
                    op.arg.id \in IdsIn(ReadGoalsOn("getBudgetGoalsByCategory", c,
                                                    stores[BUDGET_GOALS_STORE]))
                    <=> c = op.arg.category
              /\ \A p \in Periods :
                    op.arg.id \in IdsIn(ReadGoalsOn("getBudgetGoalsByPeriod", p,
                                                    stores[BUDGET_GOALS_STORE]))
                    <=> p = op.arg.period

\* C14 witness: a lookup by category has returned a goal while the store holds
\* a goal of another category as well
C14_Witness ==
    \E s \in Slots :
        /\ ops[s].kind = "getBudgetGoalsByCategory" /\ ReadTheStore(ops[s])
        /\ ops[s].result # <<>>
        /\ \E g \in stores[BUDGET_GOALS_STORE] : g.category # ops[s].arg

\* C15: once openDB has succeeded, whatever schema it found, the database has
\* the four object stores with all their indexes
C15_FullSchemaAfterOpen == version = DB_VERSION => schema = FullSchema

\* the database file as request.onupgradeneeded sees it
DatabaseFile(sc, st) ==
    [objectStoreNames |-> sc.objectStoreNames, indexNames |-> sc.indexNames,
     stores |-> st]

\* C16: no step drops an object store or an index; the step in which openDB
\* upgrades the database leaves every stored record in place; and the upgrade
\* run again on the upgraded database changes nothing
C16_UpgradeAdditiveIdempotent ==
    [][ /\ schema.objectStoreNames \subseteq schema'.objectStoreNames
        /\ \A n \in StoreNames : schema.indexNames[n] \subseteq schema'.indexNames[n]
        /\ version' # version
              => /\ stores' = stores
                 /\ onupgradeneeded(DatabaseFile(schema', stores'))
                        = DatabaseFile(schema', stores')
      ]_vars

\* C16 witness: openDB has upgraded a database that held records in stores
\* without all their indexes, and has created the stores that were missing
C16_Witness ==
    /\ version = DB_VERSION
    /\ schema.objectStoreNames = StoreNames
    /\ schema.indexNames[CATEGORIES_STORE] = {}
    /\ schema.indexNames[BUDGET_GOALS_STORE] = IndexesOf(BUDGET_GOALS_STORE)
    /\ stores[CATEGORIES_STORE] # {}
    /\ stores[EXPENSES_STORE] # {}
    /\ stores[BUDGET_GOALS_STORE] = {}

\* the stored categories that have the name of c under another id
Namesakes(contents, c) == {r \in contents : r.name = c.name /\ r.id # c.id}

\* C17: no two categories in the store have the same name; a saveCategory(c)
\* made while a stored category with another id has c's name is rejected and
\* leaves the store as it was; and a saveCategory(c) that resolves has put c
\* in the place of the stored category with c's id, if any, and changed no
\* other
C17_UniqueCategoryNames ==
    /\ \A r1, r2 \in stores[CATEGORIES_STORE] : r1.name = r2.name => r1 = r2
    /\ \A s \in Slots :
          LET op == ops[s] IN
          (op.kind = "saveCategory" /\ op.pc \in {"settled", "hung"})
          => /\ Namesakes(prior, op.arg) # {}
                   => op.outcome = "rejected" /\ stores[CATEGORIES_STORE] = prior
             /\ op.outcome = "resolved"
                   => stores[CATEGORIES_STORE] =
                          {r \in prior : r.id # op.arg.id} \cup {op.arg}

\* C17 witness: the store has rejected a saveCategory(c) of a stored id whose
\* new name is that of the other stored category
C17_Witness ==
    \E s \in Slots :
        /\ ops[s].kind = "saveCategory" /\ Settled(ops[s])
        /\ ops[s].outcome = "rejected" /\ ops[s].conn = "open"
        /\ ops[s].arg.id \in Keys(CATEGORIES_STORE, prior)
        /\ Namesakes(prior, ops[s].arg) # {}

\* order of the values getTime returns
TimeLeq(a, b) == a[1] < b[1] \/ (a[1] = b[1] /\ a[2] <= b[2])

\* local 00:00:00.000 and 23:59:59.999 of a calendar day
Midnight(y, m, d) ==
    getTime([year |-> y, month |-> m, day |-> d, time |-> <<0, 0, 0, 0>>])

LastInstant(y, m, d) ==
    getTime([year |-> y, month |-> m, day |-> d, time |-> <<23, 59, 59, 999>>])

\* C18: the monthly window of a reference date starts at 00:00:00.000 on the
\* first day of the date's month, ends at 23:59:59.999 on the last day of
\* that month and contains the date, whatever the day of the month
C18_MonthWindow ==
    window.period = "monthly"
    => /\ window.start = Midnight(date.year, date.month, 1)
       /\ window.end = LastInstant(date.year, date.month,
                                   DaysInMonth(date.year, date.month))
       /\ TimeLeq(window.start, getTime(date))
       /\ TimeLeq(getTime(date), window.end)

\* the calendar month before the month of the date
MonthBefore(dt) ==
    IF dt.month = 0 THEN [year |-> dt.year - 1, month |-> 11]
    ELSE [year |-> dt.year, month |-> dt.month - 1]

\* C19: the previous-month window of a reference date starts at 00:00:00.000
\* on the first day of the month before the date's month and ends at
\* 23:59:59.999 on the last day of that month; start is not after end and end
\* is before the start of the date's month, whatever the day of the month
C19_PreviousMonthWindow ==
    window.period = "previousMonth"
    => LET pm == MonthBefore(date) IN
       /\ window.start = Midnight(pm.year, pm.month, 1)
       /\ window.end = LastInstant(pm.year, pm.month, DaysInMonth(pm.year, pm.month))
       /\ TimeLeq(window.start, window.end)
       /\ TimeLeq(window.end, getStartOfMonth(date))
       /\ window.end # getStartOfMonth(date)

\* C20: the weekly window of a reference date starts at 00:00:00.000 on a
\* Sunday, ends at 23:59:59.999 on the Saturday six days later, and contains
\* the date: seven consecutive days from the Sunday on or before the date to
\* the Saturday on or after it, also across the end of a month or a year
C20_WeekWindow ==
    window.period = "weekly"
    => /\ (window.start[1] + 4) % 7 = 0 /\ window.start[2] = 0
       /\ (window.end[1] + 4) % 7 = 6 /\ window.end[2] = 86399999
       /\ window.end[1] - window.start[1] = 6
       /\ TimeLeq(window.start, getTime(date))
       /\ TimeLeq(getTime(date), window.end)

\* C20 witness: the week of a date early in January started in the year before
C20_Witness ==
    /\ window.period = "weekly"
    /\ date.month = 0
    /\ window.start[1] < DayFromYear(date.year)
    /\ window.end[1] > DayFromYear(date.year)

\* the positions of a list whose expense has its timestamp in [start, end]
Within(list, start, end) ==
    {i \in 1..Len(list) : TimeLeq(start, list[i].timestamp)
                          /\ TimeLeq(list[i].timestamp, end)}

\* the sum of the amounts at the given positions of a list
RECURSIVE TotalAt(_, _)
TotalAt(list, positions) ==
    IF positions = {} THEN 0
    ELSE LET i == CHOOSE p \in positions : TRUE
         IN  list[i].amount + TotalAt(list, positions \ {i})

\* C21: each total of the main page (daily, weekly, monthly) is the sum of
\* the amounts of exactly the expenses whose timestamp t has start <= t <= end
\* for the bounds of that period's window, both bounds included; the total of
\* an empty selection is 0
C21_PeriodTotals ==
    view.of = "totals"
    => /\ view.daily =
            TotalAt(ledger, Within(ledger, getStartOfDay(date), getEndOfDay(date)))
       /\ view.weekly =
            TotalAt(ledger, Within(ledger, getStartOfWeek(date), getEndOfWeek(date)))
       /\ view.monthly =
            TotalAt(ledger, Within(ledger, getStartOfMonth(date), getEndOfMonth(date)))
       /\ (Within(ledger, getStartOfDay(date), getEndOfDay(date)) = {} => view.daily = 0)

\* C21 witness: an expense of 20 at the first instant of the month and one of
\* 30 at its last instant give a monthly total of 50, and nothing for the day
C21_Witness ==
    /\ view.of = "totals"
    /\ Len(ledger) = 2
    /\ ledger[1].amount = 20 /\ ledger[1].timestamp = getStartOfMonth(date)
    /\ ledger[2].amount = 30 /\ ledger[2].timestamp = getEndOfMonth(date)
    /\ view.monthly = 50
    /\ view.daily = 0

\* the expenses of a list made on the local calendar day with the given number
OnDay(list, day) == {i \in 1..Len(list) : list[i].timestamp[1] = day}

\* C22: groupExpensesByDay(expenses, start, end) returns exactly one bucket
\* for each calendar day of [start, end] (n days give n buckets), in ascending
\* order of date with no gap and no day twice, and the bucket of every day
\* without expenses has amount 0
C22_OneBucketPerDay ==
    view.of = "byDay"
    => LET n == view.end[1] - view.start[1] + 1
       IN  /\ Len(view.buckets) = n
           /\ \A k \in 1..n :
                 /\ view.buckets[k].formattedDate = getDate(<<view.start[1] + k - 1, 0>>)
                 /\ k > 1 => view.buckets[k].date = view.buckets[k - 1].date + 1
                 /\ OnDay(ledger, view.start[1] + k - 1) = {}
                    => view.buckets[k].amount = 0

\* the positions of the expenses a breakdown of the month is made of
OfTheMonth == Within(ledger, getStartOfMonth(date), getEndOfMonth(date))

\* the entries are the breakdown by category of the expenses at the positions:
\* one entry per category that has expenses, with their sum, largest first
IsBreakdown(entries, positions) ==
    /\ {entries[k].id : k \in 1..Len(entries)} = {ledger[i].category : i \in positions}
    /\ \A k, l \in 1..Len(entries) : entries[k].id = entries[l].id => k = l
    /\ \A k \in 1..Len(entries) :
          /\ entries[k].value =
                TotalAt(ledger, {i \in positions : ledger[i].category = entries[k].id})
          /\ entries[k].value # 0
          /\ k > 1 => entries[k - 1].value >= entries[k].value

\* every entry's percentage is its value / total * 100
HasPercentages(entries, total) ==
    \A k \in 1..Len(entries) :
        /\ entries[k].percentage.d > 0
        /\ entries[k].percentage.n * total = entries[k].value * 100 * entries[k].percentage.d

\* C23: the category breakdown of a set of expenses has one entry per category
\* with a non-zero total, whose amount is the sum of that category's expenses
\* and whose percentage is amount / total * 100; categories with a zero total
\* are absent and the entries are in descending order of amount
C23_CategoryBreakdown ==
    /\ view.of = "totals"
       => /\ IsBreakdown(view.categoryData, OfTheMonth)
          /\ HasPercentages(view.categoryData, TotalAt(ledger, OfTheMonth))
    /\ view.of = "summary"
       => /\ IsBreakdown(view.categories, OfTheMonth)
          /\ HasPercentages(view.categories, TotalAt(ledger, OfTheMonth))
    /\ view.of = "byCategory" => IsBreakdown(view.categoryData, OfTheMonth)

\* C23 witness: 20 of a built-in category and 30 of a custom one give the
\* custom one first with 60% and the built-in one second with 40%
C23_Witness ==
    /\ view.of = "summary"
    /\ Len(view.categories) = 2
    /\ view.categories[1] = [id |-> "gym", value |-> 30, percentage |-> Whole(60)]
    /\ view.categories[2] = [id |-> "food", value |-> 20, percentage |-> Whole(40)]

\* C24: calculatePercentageChange(old, new) is 0 when old = 0 and new = 0,
\* 100 when old = 0 and new # 0, and (new - old) / |old| * 100 otherwise,
\* for a positive and for a negative old value alike
C24_PercentageChange ==
    view.of = "change"
    => LET old == view.oldValue
           new == view.newValue
           magnitude == IF old < 0 THEN 0 - old ELSE old
       IN  /\ (old = 0 /\ new = 0) => view.change = Whole(0)
           /\ (old = 0 /\ new # 0) => view.change = Whole(100)
           /\ old # 0 => /\ view.change.d > 0
                         /\ view.change.n * magnitude = (new - old) * 100 * view.change.d
           /\ (old = 100 /\ new = 150) => view.change = Whole(50)
           /\ (old = 100 /\ new = 50) => view.change = Whole(-50)

\* C24 witness: from -100 to 50 is a rise of 150 percent
C24_Witness ==
    /\ view.of = "change"
    /\ view.oldValue = -100
    /\ view.newValue = 50
    /\ view.change = Whole(150)

\* C25: getBudgetStatus classifies every percentage, with exact boundaries:
\* "over" when it is >= 100, "near" when 80 <= it < 100, "under" when it is
\* < 80; a goal of 100 with a spending of 85 has percentage 85 and is "near"
C25_StatusBoundaries ==
    view.of = "status"
    => LET p == view.percentage
       IN  /\ p.d > 0
           /\ view.status = "over" <=> p.n >= 100 * p.d
           /\ view.status = "near" <=> (80 * p.d <= p.n /\ p.n < 100 * p.d)
           /\ view.status = "under" <=> p.n < 80 * p.d
           /\ (view.current = 85 /\ view.goal = 100)
              => (p = Whole(85) /\ view.status = "near")

\* C25 witness: 79.9 percent is "under" (and 80.0 percent, by C25, "near")
C25_Witness ==
    /\ view.of = "status"
    /\ view.current = 799
    /\ view.goal = 1000
    /\ view.percentage = [n |-> 799, d |-> 10]
    /\ view.status = "under"

\* C26: every percentage the aggregation computes is a defined number, and a
\* zero divisor gives 0, never NaN, an infinity or an error: the percentage
\* of a budget is current / goal.amount * 100, or 0 when goal.amount is 0,
\* and the percentage of each category is 0 when the total of the window is 0
C26_PercentagesDefined ==
    /\ view.of = "budget"
       => \A i \in 1..Len(view.statuses) :
             LET status == view.statuses[i]
             IN  /\ status.percentage.d > 0
                 /\ status.goal = 0 => status.percentage = Whole(0)
                 /\ status.goal # 0
                    => status.percentage.n * status.goal
                          = status.current * 100 * status.percentage.d
    /\ view.of = "summary"
       => \A k \in 1..Len(view.categoryMap) :
             /\ view.categoryMap[k].percentage.d > 0
             /\ view.totalSpent = 0 => view.categoryMap[k].percentage = Whole(0)

\* C26 witness: a goal without an amount in a category with spending has
\* percentage 0
C26_Witness ==
    /\ view.of = "budget"
    /\ Len(view.statuses) = 1
    /\ view.statuses[1].goal = 0
    /\ view.statuses[1].current > 0
    /\ view.statuses[1].percentage = Whole(0)

\* the calendar window of a period that contains the date: its day, its week
\* from Sunday to Saturday, or its month
CalendarWindow(period, dt) ==
    LET today == DayNumber(dt)
        sunday == today - ((today + 4) % 7)
    IN  CASE period = "daily" ->
               [start |-> Midnight(dt.year, dt.month, dt.day),
                end |-> LastInstant(dt.year, dt.month, dt.day)]
          [] period = "weekly" ->
               [start |-> <<sunday, 0>>, end |-> <<sunday + 6, 86399999>>]
          [] OTHER ->
               [start |-> Midnight(dt.year, dt.month, 1),
                end |-> LastInstant(dt.year, dt.month, DaysInMonth(dt.year, dt.month))]

TableIds == {TableOf(categories.component)[k] : k \in 1..Len(TableOf(categories.component))}

\* C28: a merged category list contains every category of the built-in table
\* exactly once, never two entries with the same id, and a custom category
\* exactly when its id is neither a built-in id nor the id of an earlier
\* entry; after any sequence of category loads and handleCategoryAdded calls
C28_MergedCategories ==
    (categories # <<>> /\ categories.built)
    => LET list == categories.list
       IN  /\ \A id \in TableIds :
                 Cardinality({k \in 1..Len(list) : list[k] = [id |-> id, custom |-> FALSE]}) = 1
           /\ \A k, l \in 1..Len(list) : list[k].id = list[l].id => k = l
           /\ \A id \in categories.offered :
                 (\E k \in 1..Len(list) : list[k] = [id |-> id, custom |-> TRUE])
                 <=> id \notin TableIds
           /\ \A k \in 1..Len(list) :
                 list[k].custom => list[k].id \in categories.offered

\* C28 witness: the budget page was handed a category with a built-in id and
\* two others, then loaded: "food" is there once, as the built-in one
C28_Witness ==
    /\ categories # <<>>
    /\ categories.component = "budget"
    /\ categories.offered = {"food", "gym", "other"}
    /\ Len(categories.list) = 8
    /\ categories.list[7] = [id |-> "gym", custom |-> TRUE]
    /\ categories.list[8] = [id |-> "other", custom |-> TRUE]

\* the collection each write of the repository is about
OwnCollection(kind) ==
    CASE kind \in {"addExpense", "deleteExpense", "saveExpenses"} -> "expenses"
      [] kind \in {"saveBudgetGoal", "deleteBudgetGoal"} -> "budgetGoals"
      [] kind = "saveCategory" -> "categories"
      [] kind = "saveSetting" -> "settings"
      [] OTHER -> "none"

\* C29: every write of the repository changes only its own collection: a
\* step that changes the contents of a collection is a step of a write whose
\* own collection it is, so no write touches the three other collections,
\* whatever records there refer to the same ids
C29_WritesOwnCollection ==
    [][\A n \in StoreNames :
          stores'[n] # stores[n]
          => \E s \in Slots : /\ ops'[s] # ops[s]
                              /\ ops[s].kind \in WriteKinds
                              /\ OwnCollection(ops[s].kind) = n]_vars

\* C29 witness: a budget goal was deleted while the three other collections
\* held records, one of them the category of the goal's id
C29_Witness ==
    /\ ops[1].kind = "deleteBudgetGoal"
    /\ Settled(ops[1])
    /\ ops[1].outcome = "resolved"
    /\ prior # {}
    /\ stores[BUDGET_GOALS_STORE] = {}
    /\ stores[EXPENSES_STORE] # {}
    /\ stores[SETTINGS_STORE] # {}
    /\ \E c \in stores[CATEGORIES_STORE] : c.id = ops[1].arg

\* C30: an expense is never changed once written: through the application's
\* actions (add, delete, reload, the flush of the list in memory, reset),
\* every record the store holds has the amount, timestamp, category and note
\* that the input form gave the expense of that id when it created it.
AsCreated(e) ==
    \E c \in created :
        /\ c.id = e.id
        /\ c.amount = e.amount /\ c.timestamp = e.timestamp
        /\ c.category = e.category /\ c.note = e.note

C30_NeverMutated == \A e \in stores[EXPENSES_STORE] : AsCreated(e)

\* a flush has re-inserted an expense that was created before the clock
\* reached its end, and the list in memory holds it too
C30_Witness ==
    /\ ops[EffectSlot].kind = "saveExpenses" /\ ops[EffectSlot].pc = "settled"
    /\ ops[EffectSlot].outcome = "resolved"
    /\ \E e \in stores[EXPENSES_STORE] :
           /\ e.timestamp < MaxClock
           /\ \E i \in 1..Len(ledger) : ledger[i] = e
           /\ \E i \in 1..Len(ops[EffectSlot].given) : ops[EffectSlot].given[i].id = e.id

\* C31: the forms enforce amount > 0 and the store does not: a submit that
\* set an error left no call behind, a submit without error was made with a
\* text that parses to a number above 0, every expense and budget goal the
\* forms built and every call they placed has an amount above 0, and a call
\* that went around the forms with any amount has stored its record once it
\* resolved.
Positive(amount) == ~isNaN(amount) /\ ~AtMost(amount, 0)

FormCalls ==
    {ops[HandlerSlot].given : k \in {ops[HandlerSlot].kind} \cap
                                    {"addExpense", "saveBudgetGoal"}}

C31_AmountsPositive ==
    /\ view.of \in {"expenseForm", "goalForm"} =>
          /\ view.error # "" => ops[HandlerSlot].pc = "idle"
          /\ view.error = "" => Positive(parseFloat(view.text))
    /\ \A r \in FormCalls : Positive(r.amount)
    /\ \A name \in {EXPENSES_STORE, BUDGET_GOALS_STORE} :
          \A r \in stores[name] :
              r.id # OtherId => Positive(r.amount)
    /\ LET op == ops[OtherSlot]
       IN (op.pc = "settled" /\ op.outcome = "resolved") =>
             \E r \in stores[StoreOf(op.kind)] :
                 r.id = OtherId /\ r.amount = op.given.amount

\* the stores hold an expense of the form with an amount between 0 and 1
\* and an expense with an amount that is not above 0
C31_Witness ==
    /\ \E r \in stores[EXPENSES_STORE] :
          r.id # OtherId /\ r.amount.n < r.amount.d
    /\ \E r \in stores[EXPENSES_STORE] : r.id = OtherId /\ ~Positive(r.amount)
    /\ view.of = "expenseForm" /\ view.error = ""

\* the sum of the values of the entries of a breakdown
RECURSIVE SumValues(_)
SumValues(entries) ==
    IF entries = <<>> THEN 0 ELSE Head(entries).value + SumValues(Tail(entries))

\* the breakdown drops no expense at the given positions: each expense whose
\* category is not a built-in one has the entry of its own category, and the
\* values of the entries add up to the total of the expenses
Tolerates(entries, positions) ==
    /\ \A i \in positions :
          ledger[i].category \notin Range(DEFAULT_CATEGORIES)
          => \E k \in 1..Len(entries) :
                /\ entries[k].id = ledger[i].category
                /\ entries[k].value >= ledger[i].amount
    /\ SumValues(entries) = TotalAt(ledger, positions)

\* C32: an expense whose category is none of the built-in ones is counted in
\* the totals and appears in the breakdown under its own category, so the
\* amounts of the breakdown's entries add up to the total of the aggregated
\* expenses and no expense is dropped
C32_OrphansTolerated ==
    /\ view.of = "totals"
       => /\ view.monthly = TotalAt(ledger, OfTheMonth)
          /\ Tolerates(view.categoryData, OfTheMonth)
    /\ view.of = "summary"
       => /\ view.totalSpent = TotalAt(ledger, OfTheMonth)
          /\ Tolerates(view.categories, OfTheMonth)
    /\ view.of = "byCategory" => Tolerates(view.categoryData, OfTheMonth)

\* C32 witness: the chart's breakdown of a month with one expense of a
\* built-in category and one of a category that is not built in
C32_Witness ==
    /\ view.of = "byCategory"
    /\ Len(view.categoryData) = 2
    /\ \E i, j \in OfTheMonth :
          /\ ledger[i].category \in Range(DEFAULT_CATEGORIES)
          /\ ledger[j].category \notin Range(DEFAULT_CATEGORIES)

StoredIds == Keys(EXPENSES_STORE, stores[EXPENSES_STORE])
Quiescent == \A s \in Slots : ops[s].pc = "idle"

\* C33: no added expense is lost: whatever the interleaving of addExpense,
\* the reload it triggers and the flush of the list in memory, once every
\* pending call has settled the store holds each expense whose addExpense
\* resolved, unless the user deleted it or reset the data
C33_NoAddedExpenseLost ==
    Quiescent => \A id \in journal.added \ journal.excused : id \in StoredIds

\* C34: no removed expense reappears: once deleteExpense(id) or clearAllData
\* has resolved, whatever the interleaving with the reloads and flushes in
\* flight, the store never again holds a removed expense (ids are never
\* drawn twice, so none is added anew)
C34_NoRemovedExpenseBack ==
    \A id \in journal.removed : id \notin StoredIds

\* what C35 says of a state: while the application loads, the persisted
\* expenses are the ones the earlier session left and no flush runs; a flush
\* was called after initialisation and with a list that is not empty; a
\* saveExpenses([]) is clearAllData's
FlushGuarded ==
    /\ loading => /\ stores[EXPENSES_STORE] = created
                  /\ ops[EffectSlot].pc = "idle"
    /\ ops[EffectSlot].kind = "saveExpenses"
       => dbInitialized /\ Len(ops[EffectSlot].given) > 0
    /\ \A s \in Slots :
          (ops[s].kind = "saveExpenses" /\ ops[s].given = <<>>) => s = HandlerSlot

\* what C35 says of a step: an initialisation that ends without a list in
\* memory, the load having failed or returned [], calls nothing and leaves
\* the store as it is
LoadLeavesStore ==
    (loading /\ ~loading' /\ ledger' = <<>>)
    => /\ \A s \in Slots : ops'[s].pc = "idle"
       /\ stores' = stores

\* C35: the flush never wipes persisted data: the flush effect calls
\* saveExpenses only after initialisation has completed and only with a list
\* that is not empty, so a failed or empty initial load leaves the persisted
\* expenses untouched; only clearAllData calls saveExpenses([])
C35_FlushNeverWipes == []FlushGuarded /\ [][LoadLeavesStore]_vars

\* C35 witness: the earlier session left an expense, the initial load
\* returned nothing, the database counts as initialized, and no call is
\* in flight
C35_Witness ==
    /\ ~loading /\ dbInitialized /\ ledger = <<>>
    /\ stores[EXPENSES_STORE] = created /\ created # {}
    /\ \A s \in Slots : ops[s].pc = "idle"

\* no effect is due and no call is in progress: every slot is free, or holds
\* a call whose transaction is over and whose promise nothing will settle
AtRest ==
    /\ ~view.due /\ ~view.soundDue
    /\ \A s \in Slots : ops[s].pc \in {"idle", "hung"}

\* C36: after initialisation and with no user action the application comes
\* to rest: the totals effect runs a bounded number of times, and from some
\* point on no repository operation is pending or being issued
C36_ComesToRest == <>[]AtRest

\* the sum of the amounts of the buckets
RECURSIVE SumBuckets(_)
SumBuckets(buckets) ==
    IF buckets = <<>> THEN 0 ELSE Head(buckets).amount + SumBuckets(Tail(buckets))

\* C37: groupExpensesByDay conserves the amounts in every time zone: each
\* expense with start <= timestamp <= end is added to exactly one bucket,
\* that of its local calendar day, so the amounts of the buckets add up to
\* the total of the expenses in the window, and each bucket's label
\* (formattedDate) is the day of the month of the expenses it holds
C37_DayBucketsConserve ==
    view.of = "byDay"
    => LET inWindow == Within(ledger, view.start, view.end)
       IN  /\ SumBuckets(view.buckets) = TotalAt(ledger, inWindow)
           /\ \A k \in 1..Len(view.buckets) :
                 LET day == view.start[1] + k - 1
                 IN  /\ view.buckets[k].amount =
                           TotalAt(ledger, inWindow \cap OnDay(ledger, day))
                     /\ view.buckets[k].formattedDate = getDate(<<day, 0>>)

\* one expense of each amount at each edge of the day, the week and the month
\* of the date
EdgeLedgers(dt) ==
    {<<[amount |-> a, category |-> "food", timestamp |-> t]>> :
        a \in Amounts,
        t \in Edges("daily", dt) \cup Edges("weekly", dt) \cup Edges("monthly", dt)}

\* C38: for every reference date the daily window lies inside the weekly
\* window and inside the monthly window of the date (start of week <= start
\* of day, end of day <= end of week, start of month <= start of day, end of
\* day <= end of month), so for expenses with positive amounts the daily
\* total of the main page is at most the weekly and at most the monthly total
C38_DailyInsideWeeklyAndMonthly ==
    window.period = "daily"
    => /\ TimeLeq(getStartOfWeek(date), window.start)
       /\ TimeLeq(window.end, getEndOfWeek(date))
       /\ TimeLeq(getStartOfMonth(date), window.start)
       /\ TimeLeq(window.end, getEndOfMonth(date))
       /\ \A expenses \in EdgeLedgers(date) :
             LET totals == calculateTotals(expenses, date)
             IN  /\ totals.daily <= totals.weekly
                 /\ totals.daily <= totals.monthly

\* C38 witness: the day is a Sunday and the last day of a 31-day month: the
\* daily window starts with the weekly window, and the monthly window the code
\* computes ends after the end of the day
C38_Witness ==
    /\ window.period = "daily"
    /\ date.day = 31 /\ getDay(date) = 0
    /\ getStartOfWeek(date) = window.start
    /\ TimeLeq(window.end, getEndOfMonth(date))
    /\ window.end # getEndOfWeek(date)
\* C39: the month-over-month change the expense chart computes inline equals
\* calculatePercentageChange(previousTotal, currentTotal) for every pair of
\* non-negative totals: 0 when both are 0, 100 when only the previous total
\* is 0, and (current - previous) / previous * 100 otherwise
C39_ChartChangeAgrees ==
    (view.of = "chart" /\ view.previousMonthTotal >= 0 /\ view.currentMonthTotal >= 0)
    => LET previous == view.previousMonthTotal
           current == view.currentMonthTotal
       IN  /\ view.percentChange = calculatePercentageChange(previous, current)
           /\ (previous = 0 /\ current = 0) => view.percentChange = Whole(0)
           /\ (previous = 0 /\ current > 0) => view.percentChange = Whole(100)
           /\ previous > 0
              => /\ view.percentChange.d > 0
                 /\ view.percentChange.n * previous
                        = (current - previous) * 100 * view.percentChange.d

\* C39 witness: nothing last month and 50 this month is shown as a rise of
\* 100 percent, as calculatePercentageChange(0, 50) is
C39_Witness ==
    /\ view.of = "chart"
    /\ view.previousMonthTotal = 0
    /\ view.currentMonthTotal = 50
    /\ view.percentChange = Whole(100)
\* the requests made so far go to the APIs in list order, one each
InListOrder ==
    /\ Len(view.requests) <= Len(apis)
    /\ \A i \in 1..Len(view.requests) : view.requests[i] = apis[i]

\* the positions of the responses that were OK, and of those that were OK
\* with a body that is JSON
OkResponses == {i \in 1..Len(view.responses) : Ok(view.responses[i])}

ParsedResponses == {i \in OkResponses : view.responses[i].body.parses}

\* the record the claim expects of a body, spelled out per format: the
\* default when the body is null or names no country
Expected(body) ==
    IF ~body.truthy THEN getBrowserLanguageBasedCountry
    ELSE LET code == IF body.country_code # "" THEN body.country_code
                     ELSE IF body.country # "" THEN body.country
                     ELSE IF body.countryCode # "" THEN body.countryCode
                     ELSE "UN"
             name == IF body.country_name # "" /\ (body.country_code # "" \/ body.country # "")
                     THEN body.country_name
                     ELSE IF body.country # "" THEN body.country
                     ELSE "Unknown"
         IN  [code |-> code, name |-> name,
              flag |-> IF code \in countryFlags THEN code ELSE "globe"]

GeoSafe ==
    view.of = "geo"
    => /\ InListOrder
       /\ \A i \in ParsedResponses : Len(view.requests) = i
       /\ view.pc = "returned"
          => /\ view.result.code # "" /\ view.result.name # ""
             /\ view.result = IF ParsedResponses = {} THEN getBrowserLanguageBasedCountry
                              ELSE Expected(view.responses[Len(view.responses)].body)
             /\ ParsedResponses = {} => Len(view.requests) = Len(apis)

GeoReturned == view.of = "geo" /\ view.pc = "returned"

====
